---------------------------- MODULE Spec2Model ----------------------------
(***************************************************************************)
(* A model of the Siglent "min" oscilloscope driver                        *)
(* (SiglentMinOscilloscope.cpp): the trigger state machine, the waveform   *)
(* block reader and the channel-enable cache.                              *)
(*                                                                         *)
(* The SCPI transport is an external collaborator.  The model does not     *)
(* look inside it: every driver call records, in order, the calls it made  *)
(* on the transport (the field "io" of a call record).                     *)
(***************************************************************************)
EXTENDS Integers, Sequences, FiniteSets, TLC

VARIABLES
    m_triggerArmed,     \* SiglentMinOscilloscope.h:191
    m_triggerOneShot,   \* SiglentMinOscilloscope.h:192
    m_triggerForced,    \* SiglentMinOscilloscope.h:193
    trigLog,            \* the last HistLen trigger calls, oldest first
    blk,                \* the last ReadWaveformBlock call: inputs and outcome
    prevBlk,            \* the call before it: shape, length, flag, result
    m_analogChannelCount,   \* SiglentMinOscilloscope.h:184
    m_channelsEnabled,      \* SiglentMinOscilloscope.h:203, a map: int -> bool
    m_sampleRateValid,      \* SiglentMinOscilloscope.h:204
    m_sampleRate,           \* SiglentMinOscilloscope.h:205
    m_memoryDepthValid,     \* SiglentMinOscilloscope.h:206
    m_memoryDepth,          \* SiglentMinOscilloscope.h:207
    cacheCall,              \* the last channel/timebase call and its outcome
    m_channelVoltageRanges, \* SiglentMinOscilloscope.h:201, a map: int -> volts
    m_channelOffsets,       \* SiglentMinOscilloscope.h:202, a map: int -> volts
    m_channelDeskew,        \* SiglentMinOscilloscope.h:210, a map: int -> time
    m_probeIsActive,        \* SiglentMinOscilloscope.h:211, a map: int -> bool
    m_triggerOffsetValid,   \* SiglentMinOscilloscope.h:208
    m_triggerOffset,        \* SiglentMinOscilloscope.h:209
    m_trigger,              \* the active trigger descriptor, or "NULL"
    getter,                 \* the cached getter two threads are calling
    pc,                     \* where each of the two threads is in that getter
    replyOf,                \* each thread's local "reply"
    retOf,                  \* what each thread's call returned
    raceIo,                 \* the transport calls the two threads made, in order
    acq,                    \* the last AcquireData call: inputs and outcome
    m_pendingWaveforms,     \* Oscilloscope::m_pendingWaveforms, as its length
    exch,                   \* two threads on the transport: positions and calls
    pin,                    \* the packed bytes handed to the unpack routines
    unpackOut,              \* the buffers the unpack routines wrote
    split,                  \* the last ConvertDigitalSamples call and its workers
    file,                   \* the capture file m_fpname names
    m_streams,              \* the import filter's streams with their samples
    importCall,             \* the last OnFileNameChanged call
    ident,                  \* m_vendor, m_model, ... and the constructor's calls
    m_channels              \* Instrument::m_channels, the channels created

trigVars == <<m_triggerArmed, m_triggerOneShot, m_triggerForced, trigLog>>

blockVars == <<blk, prevBlk>>

timebaseVars == <<m_sampleRate, m_memoryDepth>>

cacheVars == <<m_analogChannelCount, m_channelsEnabled, m_sampleRateValid,
               m_memoryDepthValid, timebaseVars, cacheCall>>

configVars == <<m_channelVoltageRanges, m_channelOffsets, m_channelDeskew,
                m_probeIsActive, m_triggerOffsetValid, m_triggerOffset, m_trigger>>

raceVars == <<getter, pc, replyOf, retOf, raceIo>>

\* What the trigger calls, the block reader and the channel-enable calls
\* leave alone
acqVars == <<acq, m_pendingWaveforms, exch>>

\* What the constructor alone writes
identVars == <<ident, m_channels>>

\* What the calls on the configuration cache leave alone as well
unpackVars == <<pin, unpackOut>>
splitVars == <<split>>
fileVars == <<file, m_streams, importCall>>

\* The state of the capture-file import filter
importVars == <<unpackVars, splitVars, fileVars>>

\* The state of the instrument driver
scopeVars == <<trigVars, blockVars, cacheVars, configVars, raceVars, acqVars,
               identVars>>

restVars == <<acqVars, importVars, identVars>>

extVars == <<configVars, raceVars, restVars>>

vars == <<trigVars, blockVars, cacheVars, extVars>>

---------------------------------------------------------------------------
(* Bounds *)

\* How many of the most recent trigger calls the log keeps.
HistLen == 3

\* The largest channel index a caller passes (the instrument has at most
\* MAX_ANALOG channels, 0..3, so this reaches past the last one).
MaxChannelIndex == 4

---------------------------------------------------------------------------
(* The transport calls a driver method makes, as entries of "io" *)

\* m_transport->SendCommandQueued(cmd), also reached through sendOnly()
SendCommandQueued(cmd) == <<"SendCommandQueued", cmd>>

\* sendOnly(fmt, ...) formats the command and queues it
sendOnly(cmd) == SendCommandQueued(cmd)

\* m_transport->FlushCommandQueue()
FlushCommandQueue == <<"FlushCommandQueue">>

\* converse(fmt, ...): SendCommandQueuedWithReply(cmd), which returned reply
converse(cmd, reply) == <<"SendCommandQueuedWithReply", cmd, reply>>

---------------------------------------------------------------------------
(* Trigger state machine *)

TRIGGER_MODE_RUN == "TRIGGER_MODE_RUN"
TRIGGER_MODE_STOP == "TRIGGER_MODE_STOP"
TRIGGER_MODE_TRIGGERED == "TRIGGER_MODE_TRIGGERED"

\* Replies the instrument can give to :TRIGGER:STATUS? ("Auto" and "Trig'd"
\* stand for every string other than Arm, Ready and Stop).
StatusReplies == {"Arm", "Ready", "Stop", "Auto", "Trig'd"}

TrigState(a, o, f) == [armed |-> a, oneShot |-> o, forced |-> f]

\* The log keeps the last HistLen records.
Push(log, rec) ==
    IF Len(log) < HistLen THEN Append(log, rec) ELSE Append(Tail(log), rec)

\* A trigger call returns: the members take their new values and the call
\* is logged with the state it started from.
TrigReturn(op, status, a, o, f, ret, io) ==
    /\ m_triggerArmed' = a
    /\ m_triggerOneShot' = o
    /\ m_triggerForced' = f
    /\ trigLog' = Push(trigLog,
          [op |-> op, status |-> status, ret |-> ret, io |-> io,
           pre |-> TrigState(m_triggerArmed, m_triggerOneShot, m_triggerForced),
           post |-> TrigState(a, o, f)])
    /\ UNCHANGED <<blockVars, cacheVars, extVars>>

\* PollTrigger(), the branch taken while a force-trigger is pending; sinr is
\* what the instrument would have answered, and is not asked for.
PollForced_StillQueries(sinr) ==
    TrigReturn("PollTrigger", sinr, FALSE, m_triggerOneShot, FALSE,
               TRIGGER_MODE_TRIGGERED, <<converse(":TRIGGER:STATUS?", sinr)>>)

PollForced_KeepsArmed(sinr) ==
    TrigReturn("PollTrigger", sinr, m_triggerArmed, m_triggerOneShot, FALSE,
               TRIGGER_MODE_TRIGGERED, <<>>)

PollForced(sinr) ==
    TrigReturn("PollTrigger", sinr, FALSE, m_triggerOneShot, FALSE,
               TRIGGER_MODE_TRIGGERED, <<>>)

\* PollTrigger(), status Arm or Ready
PollArmReady(sinr, io) ==
    TrigReturn("PollTrigger", sinr, TRUE, m_triggerOneShot, m_triggerForced,
               TRIGGER_MODE_RUN, io)

\* PollTrigger(), status Stop
PollStop_AlwaysDisarms(sinr, io) ==
    IF m_triggerArmed
    THEN TrigReturn("PollTrigger", sinr, FALSE, m_triggerOneShot,
                    m_triggerForced, TRIGGER_MODE_TRIGGERED, io)
    ELSE TrigReturn("PollTrigger", sinr, m_triggerArmed, m_triggerOneShot,
                    m_triggerForced, TRIGGER_MODE_STOP, io)

PollStop(sinr, io) ==
    IF m_triggerArmed
    THEN TrigReturn("PollTrigger", sinr,
                    IF m_triggerOneShot THEN FALSE ELSE m_triggerArmed,
                    m_triggerOneShot, m_triggerForced,
                    TRIGGER_MODE_TRIGGERED, io)
    ELSE TrigReturn("PollTrigger", sinr, m_triggerArmed, m_triggerOneShot,
                    m_triggerForced, TRIGGER_MODE_STOP, io)

\* PollTrigger(), the status query and the dispatch on its reply
PollStatus_ArmOnly(sinr) ==
    LET io == <<converse(":TRIGGER:STATUS?", sinr)>> IN
    IF sinr = "Arm"
    THEN PollArmReady(sinr, io)
    ELSE IF sinr = "Stop"
    THEN PollStop(sinr, io)
    ELSE TrigReturn("PollTrigger", sinr, m_triggerArmed, m_triggerOneShot,
                    m_triggerForced, TRIGGER_MODE_RUN, io)

PollStatus(sinr) ==
    LET io == <<converse(":TRIGGER:STATUS?", sinr)>> IN
    IF sinr = "Arm" \/ sinr = "Ready"
    THEN PollArmReady(sinr, io)
    ELSE IF sinr = "Stop"
    THEN PollStop(sinr, io)
    ELSE TrigReturn("PollTrigger", sinr, m_triggerArmed, m_triggerOneShot,
                    m_triggerForced, TRIGGER_MODE_RUN, io)

\* PollTrigger(); sinr is what the instrument answers (or would answer) to
\* :TRIGGER:STATUS?
PollTrigger(sinr) ==
    IF m_triggerForced THEN PollForced(sinr) ELSE PollStatus(sinr)

Start ==
    TrigReturn("Start", "-", TRUE, FALSE, m_triggerForced, "void",
               << sendOnly(":TRIGGER:MODE STOP"),
                  sendOnly(":TRIGGER:MODE SINGLE"),
                  FlushCommandQueue >>)

StartSingleTrigger ==
    TrigReturn("StartSingleTrigger", "-", TRUE, TRUE, m_triggerForced, "void",
               << sendOnly(":TRIGGER:MODE STOP"),
                  sendOnly(":TRIGGER:MODE SINGLE"),
                  FlushCommandQueue >>)

Stop_KeepsOneShot ==
    TrigReturn("Stop", "-", FALSE, m_triggerOneShot, m_triggerForced, "void",
               << SendCommandQueued(":TRIGGER:MODE STOP"),
                  FlushCommandQueue >>)

Stop ==
    TrigReturn("Stop", "-", FALSE, TRUE, m_triggerForced, "void",
               << SendCommandQueued(":TRIGGER:MODE STOP"),
                  FlushCommandQueue >>)

ForceTrigger_NoGuard ==
    TrigReturn("ForceTrigger", "-", TRUE, TRUE, TRUE, "void",
               << sendOnly(":TRIGGER:MODE FTRIG"), FlushCommandQueue >>)

ForceTrigger ==
    IF m_triggerForced
    THEN TrigReturn("ForceTrigger", "-", m_triggerArmed, m_triggerOneShot,
                    m_triggerForced, "void", <<>>)
    ELSE TrigReturn("ForceTrigger", "-", TRUE, TRUE, TRUE, "void",
                    << sendOnly(":TRIGGER:MODE FTRIG"), FlushCommandQueue >>)

---------------------------------------------------------------------------
(* Waveform block protocol *)

WAVEDESC_SIZE == 346
WAVEFORM_SIZE == 14000000

\* Widths.  packetSizeSequence holds 9 characters before its NUL, so atoi
\* yields at most 999 999 999 and its double is at most 1 999 999 998: below
\* 2^31, hence unchanged by the uint32_t arithmetic and by the conversion of
\* the result to int.  The model computes on the plain integers.

Min(a, b) == IF a < b THEN a ELSE b

DigitChars == <<"0", "1", "2", "3", "4", "5", "6", "7", "8", "9">>

IsDigit(c) == \E d \in 1..10 : DigitChars[d] = c

DigitVal(c) == (CHOOSE d \in 1..10 : DigitChars[d] = c) - 1

IsSpace(c) == c \in {" ", "\t", "\n", "\r"}

\* The instrument writes a block length as 9 decimal digits ("#9" + digits).
Digits9(n) ==
    [k \in 1..9 |-> DigitChars[((n \div (10 ^ (9 - k))) % 10) + 1]]

\* What the instrument puts in front of the payload, by reply shape.  "DAT1"
\* is a tag the driver does not know; "stale" is a well-formed bare header
\* behind one unread trailer byte.
Shapes == {"DESC", "DAT2", "WF", "bare", "DAT1", "stale"}

Recognized == {"DESC", "DAT2", "WF", "bare"}

Header(shape, n) ==
    CASE shape = "DESC" -> <<"D", "E", "S", "C", ",", "#", "9">> \o Digits9(n)
      [] shape = "DAT2" -> <<"D", "A", "T", "2", ",", "#", "9">> \o Digits9(n)
      [] shape = "WF" ->
            <<"C", "1", ":", "W", "F", " ", "D", "A", "T", "2", ",", "#", "9">>
                \o Digits9(n)
      [] shape = "bare" -> <<"#", "9">> \o Digits9(n)
      [] shape = "DAT1" -> <<"D", "A", "T", "1", ",", "#", "9">> \o Digits9(n)
      [] shape = "stale" -> <<"\n", "#", "9">> \o Digits9(n)

\* Declared lengths and destination sizes the calls are made with
DeclaredLengths == {0, WAVEDESC_SIZE, 5000000, 999999999}
MaxSizes == {WAVEDESC_SIZE, 1000000, WAVEFORM_SIZE}

\* m_transport->ReadRawData(n, buf) at offset pos of the incoming stream
ReadRawData(stream, pos, n) == SubSeq(stream, pos + 1, pos + n)

\* atoi(): optional white space, optional sign, then digits up to the first
\* character that is none (the buffer is NUL-terminated after 9 characters).
RECURSIVE AtoiDigits(_, _, _)
AtoiDigits(s, i, acc) ==
    IF i > Len(s) \/ ~IsDigit(s[i]) THEN acc
    ELSE AtoiDigits(s, i + 1, acc * 10 + DigitVal(s[i]))

RECURSIVE SkipSpace(_, _)
SkipSpace(s, i) ==
    IF i <= Len(s) /\ IsSpace(s[i]) THEN SkipSpace(s, i + 1) ELSE i

atoi(s) ==
    LET i == SkipSpace(s, 1) IN
    IF i <= Len(s) /\ s[i] = "-" THEN 0 - AtoiDigits(s, i + 1, 0)
    ELSE IF i <= Len(s) /\ s[i] = "+" THEN AtoiDigits(s, i + 1, 0)
    ELSE AtoiDigits(s, i, 0)

\* ReadWaveformBlock(), the header: the 7-byte prefix, the shape it is taken
\* for, and the 9 characters that end up in packetSizeSequence.  "read" counts
\* the bytes taken from the transport.
ReadBlockHeader_ShortDiscard(stream) ==
    LET prefix == ReadRawData(stream, 0, 7) IN
    IF \/ prefix = <<"D", "E", "S", "C", ",", "#", "9">>
       \/ prefix = <<"D", "A", "T", "2", ",", "#", "9">>
    THEN [ok |-> TRUE, field |-> ReadRawData(stream, 7, 9), read |-> 16]
    ELSE IF SubSeq(prefix, 3, 7) = <<":", "W", "F", " ", "D">>
    THEN [ok |-> TRUE, field |-> ReadRawData(stream, 12, 9), read |-> 21]
    ELSE IF SubSeq(prefix, 1, 2) = <<"#", "9">>
    THEN [ok |-> TRUE,
          field |-> SubSeq(prefix, 3, 7) \o ReadRawData(stream, 7, 4),
          read |-> 11]
    ELSE [ok |-> FALSE, field |-> <<>>, read |-> 7]

ReadBlockHeader(stream) ==
    LET prefix == ReadRawData(stream, 0, 7) IN
    IF \/ prefix = <<"D", "E", "S", "C", ",", "#", "9">>
       \/ prefix = <<"D", "A", "T", "2", ",", "#", "9">>
    THEN [ok |-> TRUE, field |-> ReadRawData(stream, 7, 9), read |-> 16]
    ELSE IF SubSeq(prefix, 3, 7) = <<":", "W", "F", " ", "D">>
    THEN [ok |-> TRUE, field |-> ReadRawData(stream, 13, 9), read |-> 22]
    ELSE IF SubSeq(prefix, 1, 2) = <<"#", "9">>
    THEN [ok |-> TRUE,
          field |-> SubSeq(prefix, 3, 7) \o ReadRawData(stream, 7, 4),
          read |-> 11]
    ELSE [ok |-> FALSE, field |-> <<>>, read |-> 7]

\* ReadWaveformBlock(), the length and the payload read, for a recognized
\* header h: the value returned, the bytes read from the transport after the
\* header, and the bytes stored in data.
ReadBlockPayload_NoClamp(h, maxsize, hdSizeWorkaround) ==
    LET getLength == atoi(h.field)
        len == IF hdSizeWorkaround THEN getLength * 2 ELSE getLength
    IN [ret |-> len, headerRead |-> h.read,
        payloadRead |-> len, written |-> len]

ReadBlockPayload(h, maxsize, hdSizeWorkaround) ==
    LET getLength == atoi(h.field)
        doubled == IF hdSizeWorkaround THEN getLength * 2 ELSE getLength
        len == Min(doubled, maxsize)
    IN [ret |-> IF hdSizeWorkaround THEN getLength * 2 ELSE getLength,
        headerRead |-> h.read, payloadRead |-> len, written |-> len]

\* ReadWaveformBlock(), the error return
ReadBlockInvalid_ReadsOn(h, maxsize) ==
    [ret |-> 0, headerRead |-> h.read, payloadRead |-> maxsize,
     written |-> maxsize]

ReadBlockInvalid(h, maxsize) ==
    [ret |-> 0, headerRead |-> h.read, payloadRead |-> 0, written |-> 0]

ReadWaveformBlock(stream, maxsize, hdSizeWorkaround) ==
    LET h == ReadBlockHeader(stream) IN
    IF h.ok THEN ReadBlockPayload(h, maxsize, hdSizeWorkaround)
            ELSE ReadBlockInvalid(h, maxsize)

NoBlock == [shape |-> "none"]

\* One call of ReadWaveformBlock on a reply of the given shape declaring
\* `declared` bytes.
CallReadWaveformBlock ==
    \E shape \in Shapes, declared \in DeclaredLengths,
       maxsize \in MaxSizes, hdSizeWorkaround \in BOOLEAN :
        /\ blk' = [shape |-> shape, declared |-> declared,
                   maxsize |-> maxsize, hd |-> hdSizeWorkaround,
                   out |-> ReadWaveformBlock(Header(shape, declared), maxsize,
                                             hdSizeWorkaround)]
        /\ prevBlk' = IF blk = NoBlock THEN NoBlock
                      ELSE [shape |-> blk.shape, declared |-> blk.declared,
                            hd |-> blk.hd, ret |-> blk.out.ret]
        /\ UNCHANGED <<trigVars, cacheVars, extVars>>

---------------------------------------------------------------------------
(* Channel-enable cache and interleaving *)

MAX_ANALOG == 4

\* DetectAnalogChannels(): 2 or 4 by the model name, else 1
ChannelCounts == {1, 2, MAX_ANALOG}

ChannelIndices == 0..MaxChannelIndex

\* Replies to :CHANNEL<n>:SWITCH? ("" stands for anything unexpected)
SwitchReplies == {"ON", "OFF", "OFF\n", ""}

\* reply.find("OFF") == 0
StartsWithOFF(reply) == reply \in {"OFF", "OFF\n"}

\* The text of a per-channel command: "%d" is given i + 1
ChannelCmd(i, rest) == ":CHANNEL" \o ToString(i + 1) \o rest

\* std::map::operator[] on each key of keys: a missing key is inserted with
\* the value false
Subscripted(map, keys) ==
    [k \in (DOMAIN map) \cup keys |-> IF k \in DOMAIN map THEN map[k] ELSE FALSE]

\* map[key] = value
Assigned(map, key, value) ==
    [k \in (DOMAIN map) \cup {key} |-> IF k = key THEN value ELSE map[k]]

\* The keys IsInterleaving() subscripts m_channelsEnabled with
InterleavingKeys == {0, 1, 3, 4}

\* IsInterleaving(): the value returned for the map as it is after the
\* subscripts
InterleavingOf(map) ==
    LET m == Subscripted(map, InterleavingKeys) IN
    IF m[0] = TRUE /\ m[1] = TRUE THEN FALSE
    ELSE IF m[3] = TRUE /\ m[4] = TRUE THEN FALSE
    ELSE TRUE

\* A channel call returns: it leaves the cached rate and depth themselves
\* alone, whatever it does to their validity.
CacheReturn(op, arg, map, srValid, mdValid, ret, io) ==
    /\ m_channelsEnabled' = map
    /\ m_sampleRateValid' = srValid
    /\ m_memoryDepthValid' = mdValid
    /\ cacheCall' = [op |-> op, arg |-> arg, ret |-> ret, io |-> io]
    /\ UNCHANGED <<m_analogChannelCount, timebaseVars, trigVars, blockVars,
                   extVars>>

IsInterleaving ==
    CacheReturn("IsInterleaving", "-",
                Subscripted(m_channelsEnabled, InterleavingKeys),
                m_sampleRateValid, m_memoryDepthValid,
                InterleavingOf(m_channelsEnabled), <<>>)

\* IsChannelEnabled(i); reply is the instrument's answer if it is asked
IsChannelEnabled(i, reply) ==
    IF i \in DOMAIN m_channelsEnabled
    THEN CacheReturn("IsChannelEnabled", i, m_channelsEnabled,
                     m_sampleRateValid, m_memoryDepthValid,
                     m_channelsEnabled[i], <<>>)
    ELSE IF i < m_analogChannelCount
    THEN CacheReturn("IsChannelEnabled", i,
                     Assigned(m_channelsEnabled, i, ~StartsWithOFF(reply)),
                     m_sampleRateValid, m_memoryDepthValid,
                     ~StartsWithOFF(reply),
                     <<converse(ChannelCmd(i, ":SWITCH?"), reply)>>)
    ELSE CacheReturn("IsChannelEnabled", i,
                     Subscripted(m_channelsEnabled, {i}),
                     m_sampleRateValid, m_memoryDepthValid, FALSE, <<>>)

EnableChannel(i) ==
    LET wasInterleaving == InterleavingOf(m_channelsEnabled)
        m1 == Subscripted(m_channelsEnabled, InterleavingKeys)
        io == IF i < m_analogChannelCount
              THEN <<sendOnly(ChannelCmd(i, ":SWITCH ON"))>> ELSE <<>>
        m2 == Assigned(m1, i, TRUE)
        changed == InterleavingOf(m2) # wasInterleaving
    IN CacheReturn("EnableChannel", i, Subscripted(m2, InterleavingKeys),
                   IF changed THEN FALSE ELSE m_sampleRateValid,
                   IF changed THEN FALSE ELSE m_memoryDepthValid,
                   "void", io)

DisableChannel(i) ==
    LET wasInterleaving == InterleavingOf(m_channelsEnabled)
        m1 == Subscripted(m_channelsEnabled, InterleavingKeys)
        m2 == Assigned(m1, i, FALSE)
        io == IF i < m_analogChannelCount
              THEN <<sendOnly(ChannelCmd(i, ":SWITCH OFF"))>> ELSE <<>>
        changed == InterleavingOf(m2) # wasInterleaving
    IN CacheReturn("DisableChannel", i, Subscripted(m2, InterleavingKeys),
                   IF changed THEN FALSE ELSE m_sampleRateValid,
                   IF changed THEN FALSE ELSE m_memoryDepthValid,
                   "void", io)

\* What the instrument reports to :ACQUIRE:SRATE? and :ACQUIRE:MDEPTH?, as
\* the numbers the replies parse to
RateReplies == {1000000000, 2000000000}
DepthReplies == {10000000, 20000000}

\* A timebase getter returns.
TimebaseReturn(op, srValid, sr, mdValid, md, ret, io) ==
    /\ m_sampleRateValid' = srValid
    /\ m_sampleRate' = sr
    /\ m_memoryDepthValid' = mdValid
    /\ m_memoryDepth' = md
    /\ cacheCall' = [op |-> op, arg |-> "-", ret |-> ret, io |-> io]
    /\ UNCHANGED <<m_analogChannelCount, m_channelsEnabled, trigVars, blockVars,
                   extVars>>

\* GetSampleRate(): asks the instrument unless the cached rate is valid
GetSampleRate ==
    IF ~m_sampleRateValid
    THEN \E reply \in RateReplies :
            TimebaseReturn("GetSampleRate", TRUE, reply, m_memoryDepthValid,
                           m_memoryDepth, reply,
                           <<converse(":ACQUIRE:SRATE?", reply)>>)
    ELSE TimebaseReturn("GetSampleRate", m_sampleRateValid, m_sampleRate,
                        m_memoryDepthValid, m_memoryDepth, m_sampleRate, <<>>)

\* GetSampleDepth(): asks the instrument unless the cached depth is valid
GetSampleDepth ==
    IF ~m_memoryDepthValid
    THEN \E reply \in DepthReplies :
            TimebaseReturn("GetSampleDepth", m_sampleRateValid, m_sampleRate,
                           TRUE, reply, reply,
                           <<converse(":ACQUIRE:MDEPTH?", reply)>>)
    ELSE TimebaseReturn("GetSampleDepth", m_sampleRateValid, m_sampleRate,
                        m_memoryDepthValid, m_memoryDepth, m_memoryDepth, <<>>)

---------------------------------------------------------------------------
(* Configuration cache: channel settings, timebase and trigger offset *)

\* Times are in microseconds here, where the driver counts femtoseconds: the
\* femtosecond counts of a 10 ms capture do not fit TLC's integers, and every
\* time below is a whole number of microseconds.

\* The channel the settings calls are made for
ConfigChannels == {0}

\* Replies to :CHANNEL<n>:OFFSET?, as the numbers sscanf reads from them
OffsetReplies == {0, 2}

\* Replies to :TIMEBASE:DELAY? (the delay from the midpoint of the capture)
DelayReplies == {0, 1000}

\* round(FS_PER_SECOND * halfdepth / rate), with halfdepth = depth / 2 in
\* integer arithmetic
HalfWidth(depth, rate) == (depth \div 2) \div (rate \div 1000000)

\* GetSampleRate() and GetSampleDepth() as called from inside another method:
\* the value returned, the member afterwards, and the transport calls made;
\* reply is the instrument's answer if it is asked.
RateRead(valid, value, reply) ==
    IF valid THEN [value |-> value, io |-> <<>>]
    ELSE [value |-> reply, io |-> <<converse(":ACQUIRE:SRATE?", reply)>>]

DepthRead(valid, value, reply) ==
    IF valid THEN [value |-> value, io |-> <<>>]
    ELSE [value |-> reply, io |-> <<converse(":ACQUIRE:MDEPTH?", reply)>>]

\* A per-channel settings call returns.
ConfigReturn(op, arg, ranges, offsets, deskew, probe, trigger, ret, io) ==
    /\ m_channelVoltageRanges' = ranges
    /\ m_channelOffsets' = offsets
    /\ m_channelDeskew' = deskew
    /\ m_probeIsActive' = probe
    /\ m_trigger' = trigger
    /\ cacheCall' = [op |-> op, arg |-> arg, ret |-> ret, io |-> io]
    /\ UNCHANGED <<m_analogChannelCount, m_channelsEnabled, m_sampleRateValid,
                   m_memoryDepthValid, timebaseVars, m_triggerOffsetValid,
                   m_triggerOffset, trigVars, blockVars, raceVars,
                   restVars>>

\* A timebase or trigger-offset call returns.
TimingReturn(op, arg, srValid, sr, mdValid, md, toValid, to, ret, io) ==
    /\ m_sampleRateValid' = srValid
    /\ m_sampleRate' = sr
    /\ m_memoryDepthValid' = mdValid
    /\ m_memoryDepth' = md
    /\ m_triggerOffsetValid' = toValid
    /\ m_triggerOffset' = to
    /\ cacheCall' = [op |-> op, arg |-> arg, ret |-> ret, io |-> io]
    /\ UNCHANGED <<m_analogChannelCount, m_channelsEnabled,
                   m_channelVoltageRanges, m_channelOffsets, m_channelDeskew,
                   m_probeIsActive, m_trigger, trigVars, blockVars, raceVars,
                   restVars>>

\* GetChannelOffset(i); the guard lets i = m_analogChannelCount through
GetChannelOffset(i, reply) ==
    IF i > m_analogChannelCount
    THEN ConfigReturn("GetChannelOffset", i, m_channelVoltageRanges,
                      m_channelOffsets, m_channelDeskew, m_probeIsActive,
                      m_trigger, 0, <<>>)
    ELSE IF i \in DOMAIN m_channelOffsets
    THEN ConfigReturn("GetChannelOffset", i, m_channelVoltageRanges,
                      m_channelOffsets, m_channelDeskew, m_probeIsActive,
                      m_trigger, m_channelOffsets[i], <<>>)
    ELSE ConfigReturn("GetChannelOffset", i, m_channelVoltageRanges,
                      Assigned(m_channelOffsets, i, reply), m_channelDeskew,
                      m_probeIsActive, m_trigger, reply,
                      <<converse(ChannelCmd(i, ":OFFSET?"), reply)>>)

\* SetChannelOffset(i, offset): the cache takes the requested value
SetChannelOffset(i, offset) ==
    IF i > m_analogChannelCount
    THEN ConfigReturn("SetChannelOffset", i, m_channelVoltageRanges,
                      m_channelOffsets, m_channelDeskew, m_probeIsActive,
                      m_trigger, "void", <<>>)
    ELSE ConfigReturn("SetChannelOffset", i, m_channelVoltageRanges,
                      Assigned(m_channelOffsets, i, offset), m_channelDeskew,
                      m_probeIsActive, m_trigger, "void",
                      <<sendOnly(ChannelCmd(i, ":OFFSET " \o ToString(offset)))>>)

\* GetChannelVoltageRange(i): 8 divisions of the reported scale
GetChannelVoltageRange(i, reply) ==
    IF i > m_analogChannelCount
    THEN ConfigReturn("GetChannelVoltageRange", i, m_channelVoltageRanges,
                      m_channelOffsets, m_channelDeskew, m_probeIsActive,
                      m_trigger, 1, <<>>)
    ELSE IF i \in DOMAIN m_channelVoltageRanges
    THEN ConfigReturn("GetChannelVoltageRange", i, m_channelVoltageRanges,
                      m_channelOffsets, m_channelDeskew, m_probeIsActive,
                      m_trigger, m_channelVoltageRanges[i], <<>>)
    ELSE ConfigReturn("GetChannelVoltageRange", i,
                      Assigned(m_channelVoltageRanges, i, reply * 8),
                      m_channelOffsets, m_channelDeskew, m_probeIsActive,
                      m_trigger, reply * 8,
                      <<converse(ChannelCmd(i, ":SCALE?"), reply)>>)

\* SetChannelVoltageRange(i, range): no guard on i
SetChannelVoltageRange(i, range) ==
    ConfigReturn("SetChannelVoltageRange", i,
                 Assigned(m_channelVoltageRanges, i, range),
                 m_channelOffsets, m_channelDeskew, m_probeIsActive, m_trigger,
                 "void",
                 <<sendOnly(ChannelCmd(i, ":SCALE " \o ToString(range \div 8)))>>)

\* GetDeskewForChannel(channel)
GetDeskewForChannel(channel, reply) ==
    IF channel >= m_analogChannelCount
    THEN ConfigReturn("GetDeskewForChannel", channel, m_channelVoltageRanges,
                      m_channelOffsets, m_channelDeskew, m_probeIsActive,
                      m_trigger, 0, <<>>)
    ELSE IF channel \in DOMAIN m_channelDeskew
    THEN ConfigReturn("GetDeskewForChannel", channel, m_channelVoltageRanges,
                      m_channelOffsets, m_channelDeskew, m_probeIsActive,
                      m_trigger, m_channelDeskew[channel], <<>>)
    ELSE ConfigReturn("GetDeskewForChannel", channel, m_channelVoltageRanges,
                      m_channelOffsets,
                      Assigned(m_channelDeskew, channel, reply),
                      m_probeIsActive, m_trigger, reply,
                      <<converse(ChannelCmd(channel, ":SKEW?"), reply)>>)

\* SetDeskewForChannel(channel, skew): the command is formatted with channel,
\* not channel + 1
SetDeskewForChannel(channel, skew) ==
    IF channel >= m_analogChannelCount
    THEN ConfigReturn("SetDeskewForChannel", channel, m_channelVoltageRanges,
                      m_channelOffsets, m_channelDeskew, m_probeIsActive,
                      m_trigger, "void", <<>>)
    ELSE ConfigReturn("SetDeskewForChannel", channel, m_channelVoltageRanges,
                      m_channelOffsets,
                      Assigned(m_channelDeskew, channel, skew),
                      m_probeIsActive, m_trigger, "void",
                      <<sendOnly(ChannelCmd(channel - 1,
                                            ":SKEW " \o ToString(skew)))>>)



\* GetChannelCoupling(i): marks the probe of channel i as not active, then
\* asks for coupling and impedance
GetChannelCoupling(i, replyType, replyImp) ==
    ConfigReturn("GetChannelCoupling", i, m_channelVoltageRanges,
                 m_channelOffsets, m_channelDeskew,
                 Assigned(m_probeIsActive, i, FALSE), m_trigger,
                 CASE replyType = "AC" ->
                        IF replyImp = "FIF" THEN "COUPLE_AC_50" ELSE "COUPLE_AC_1M"
                   [] replyType = "DC" ->
                        IF replyImp = "FIF" THEN "COUPLE_DC_50" ELSE "COUPLE_DC_1M"
                   [] replyType = "GN" -> "COUPLE_GND"
                   [] OTHER -> "COUPLE_SYNTHETIC",
                 << converse(ChannelCmd(i, ":COUPLING?"), replyType),
                    converse(ChannelCmd(i, ":IMPEDANCE?"), replyImp) >>)

\* PullTrigger(): an edge trigger is read into a fresh descriptor, any other
\* type leaves none.  The level, slope and source replies are one
\* representative each.
PullTrigger(reply) ==
    IF reply = "EDGE"
    THEN ConfigReturn("PullTrigger", "-", m_channelVoltageRanges,
                      m_channelOffsets, m_channelDeskew, m_probeIsActive,
                      "EdgeTrigger", "void",
                      << converse(":TRIGGER:TYPE?", reply),
                         converse(":TRIGGER:EDGE:LEVEL?", "0"),
                         converse(":TRIGGER:EDGE:SLOPE?", "RISing"),
                         converse(":TRIGGER:EDGE:SOURCE?", "C1") >>)
    ELSE ConfigReturn("PullTrigger", "-", m_channelVoltageRanges,
                      m_channelOffsets, m_channelDeskew, m_probeIsActive,
                      "NULL", "void", <<converse(":TRIGGER:TYPE?", reply)>>)

\* GetTriggerOffset(): on a miss the reported delay is converted from the
\* midpoint of the capture to its start, which takes the rate and the depth
GetTriggerOffset(reply, rateReply, depthReply) ==
    IF m_triggerOffsetValid
    THEN TimingReturn("GetTriggerOffset", "-", m_sampleRateValid, m_sampleRate,
                      m_memoryDepthValid, m_memoryDepth, m_triggerOffsetValid,
                      m_triggerOffset, m_triggerOffset, <<>>)
    ELSE LET rate == RateRead(m_sampleRateValid, m_sampleRate, rateReply)
             depth == DepthRead(m_memoryDepthValid, m_memoryDepth, depthReply)
             halfwidth == HalfWidth(depth.value, rate.value)
         IN TimingReturn("GetTriggerOffset", "-", TRUE, rate.value, TRUE,
                         depth.value, TRUE, halfwidth - reply,
                         halfwidth - reply,
                         <<converse(":TIMEBASE:DELAY?", reply)>>
                             \o rate.io \o depth.io)

\* SetTriggerOffset(offset): sends the delay from the midpoint and drops the
\* cached offset
SetTriggerOffset(offset, rateReply, depthReply) ==
    LET rate == RateRead(m_sampleRateValid, m_sampleRate, rateReply)
        depth == DepthRead(m_memoryDepthValid, m_memoryDepth, depthReply)
        halfwidth == HalfWidth(depth.value, rate.value)
    IN TimingReturn("SetTriggerOffset", offset, TRUE, rate.value, TRUE,
                    depth.value, FALSE, m_triggerOffset, "void",
                    rate.io \o depth.io
                        \o <<sendOnly(":TIMEBASE:DELAY "
                                        \o ToString(halfwidth - offset))>>)

\* The body of SetSampleRate(rate): the members afterwards and the transport
\* calls made.  The depth is always asked for, its entry having just been
\* dropped, and is dropped again after the scale is sent.
SampleRateSet_KeepsDepth(rate, depthReply) ==
    [srValid |-> FALSE, sr |-> rate, mdValid |-> TRUE, md |-> depthReply,
     io |-> << converse(":ACQUIRE:MDEPTH?", depthReply),
               sendOnly(":TIMEBASE:SCALE "
                    \o ToString((depthReply \div (rate \div 1000000)) \div 10)) >>]

SampleRateSet(rate, depthReply) ==
    [srValid |-> FALSE, sr |-> rate, mdValid |-> FALSE, md |-> depthReply,
     io |-> << converse(":ACQUIRE:MDEPTH?", depthReply),
               sendOnly(":TIMEBASE:SCALE "
                    \o ToString((depthReply \div (rate \div 1000000)) \div 10)) >>]

SetSampleRate(rate, depthReply) ==
    LET s == SampleRateSet(rate, depthReply) IN
    TimingReturn("SetSampleRate", rate, s.srValid, s.sr, s.mdValid, s.md,
                 m_triggerOffsetValid, m_triggerOffset, "void", s.io)

\* SetSampleDepth(depth), the switch: the depths the driver sends, nothing
\* for any other
DepthCmd(depth) ==
    CASE depth = 10000 -> <<sendOnly("ACQUIRE:MDEPTH 10k")>>
      [] depth = 20000 -> <<sendOnly("ACQUIRE:MDEPTH 20k")>>
      [] depth = 100000 -> <<sendOnly("ACQUIRE:MDEPTH 100k")>>
      [] depth = 200000 -> <<sendOnly("ACQUIRE:MDEPTH 200k")>>
      [] depth = 1000000 -> <<sendOnly("ACQUIRE:MDEPTH 1M")>>
      [] depth = 2000000 -> <<sendOnly("ACQUIRE:MDEPTH 2M")>>
      [] depth = 10000000 -> <<sendOnly("ACQUIRE:MDEPTH 10M")>>
      [] OTHER -> <<>>

\* SetSampleDepth(depth): saves the rate, sends the depth between two trigger
\* mode changes, drops the cached depth and sets the saved rate again
SetSampleDepth(depth, rateReply, depthReply) ==
    LET rate == RateRead(m_sampleRateValid, m_sampleRate, rateReply)
        s == SampleRateSet(rate.value, depthReply)
    IN TimingReturn("SetSampleDepth", depth, s.srValid, s.sr, s.mdValid, s.md,
                    m_triggerOffsetValid, m_triggerOffset, "void",
                    rate.io \o <<sendOnly("TRIG_MODE AUTO")>> \o DepthCmd(depth)
                        \o <<sendOnly(IF m_triggerArmed THEN "TRIG_MODE SINGLE"
                                      ELSE "TRIG_MODE STOP")>>
                        \o s.io)

\* FlushConfigCache(): every map is cleared, every validity flag is reset and
\* the trigger descriptor is deleted; the cached numbers stay as they are.
FlushReturn(trigger, ranges, offsets, enabled, deskew, probe, sr, md, to) ==
    /\ m_trigger' = trigger
    /\ m_channelVoltageRanges' = ranges
    /\ m_channelOffsets' = offsets
    /\ m_channelsEnabled' = enabled
    /\ m_channelDeskew' = deskew
    /\ m_probeIsActive' = probe
    /\ m_sampleRateValid' = sr
    /\ m_memoryDepthValid' = md
    /\ m_triggerOffsetValid' = to
    /\ cacheCall' = [op |-> "FlushConfigCache", arg |-> "-", ret |-> "void",
                     io |-> <<>>]
    /\ UNCHANGED <<m_analogChannelCount, timebaseVars, m_triggerOffset,
                   trigVars, blockVars, raceVars, restVars>>

FlushConfigCache_KeepsDeskew ==
    FlushReturn("NULL", <<>>, <<>>, <<>>, m_channelDeskew, <<>>, FALSE, FALSE,
                FALSE)

FlushConfigCache ==
    FlushReturn("NULL", <<>>, <<>>, <<>>, <<>>, <<>>, FALSE, FALSE, FALSE)

\* The cache as the constructor leaves it: flushed, the offset 0
ConfigInit ==
    /\ m_channelVoltageRanges = <<>>
    /\ m_channelOffsets = <<>>
    /\ m_channelDeskew = <<>>
    /\ m_probeIsActive = <<>>
    /\ m_triggerOffsetValid = FALSE
    /\ m_triggerOffset = 0
    /\ m_trigger = "NULL"

---------------------------------------------------------------------------
(* Two threads in the same cached getter *)

\* Each action below is one lock_guard scope on m_cacheMutex, or one
\* converse() made with the mutex released: the steps of the two threads
\* interleave between the scopes exactly as the mutex allows.

Threads == {1, 2}

\* The getter both threads call, and its channel argument
RaceGetters ==
    { [name |-> "IsChannelEnabled", i |-> 0],
      [name |-> "GetChannelOffset", i |-> 0],
      [name |-> "GetTriggerOffset", i |-> 0] }

\* The fields the three getters read and write
raceCache == <<m_channelsEnabled, m_channelOffsets, m_sampleRateValid,
               m_memoryDepthValid, timebaseVars, m_triggerOffsetValid,
               m_triggerOffset>>

\* Thread t moves on
ThreadStep(t, next, reply, ret, io) ==
    /\ pc' = [pc EXCEPT ![t] = next]
    /\ replyOf' = [replyOf EXCEPT ![t] = reply]
    /\ retOf' = [retOf EXCEPT ![t] = ret]
    /\ raceIo' = raceIo \o io
    /\ UNCHANGED <<getter, m_analogChannelCount, cacheCall,
                   m_channelVoltageRanges, m_channelDeskew, m_probeIsActive,
                   m_trigger, trigVars, blockVars, restVars>>

\* IsChannelEnabled(i), the first scope: return the entry if there is one
IsChannelEnabled_Check(t) ==
    /\ getter.name = "IsChannelEnabled"
    /\ pc[t] = "call"
    /\ IF getter.i \in DOMAIN m_channelsEnabled
       THEN ThreadStep(t, "done", replyOf[t], m_channelsEnabled[getter.i], <<>>)
       ELSE ThreadStep(t, IF getter.i < m_analogChannelCount THEN "query"
                          ELSE "return",
                       replyOf[t], retOf[t], <<>>)
    /\ UNCHANGED raceCache

\* ... the query, with the mutex released
IsChannelEnabled_Query(t) ==
    /\ getter.name = "IsChannelEnabled"
    /\ pc[t] = "query"
    /\ \E reply \in SwitchReplies :
          ThreadStep(t, "store", reply, retOf[t],
                     <<converse(ChannelCmd(getter.i, ":SWITCH?"), reply)>>)
    /\ UNCHANGED raceCache

\* ... the second scope: store what the reply says
IsChannelEnabled_Store(t) ==
    /\ getter.name = "IsChannelEnabled"
    /\ pc[t] = "store"
    /\ m_channelsEnabled' =
          Assigned(m_channelsEnabled, getter.i, ~StartsWithOFF(replyOf[t]))
    /\ ThreadStep(t, "return", replyOf[t], retOf[t], <<>>)
    /\ UNCHANGED <<m_channelOffsets, m_sampleRateValid, m_memoryDepthValid,
                   timebaseVars, m_triggerOffsetValid, m_triggerOffset>>

\* ... the last scope: return m_channelsEnabled[i] as it is now
IsChannelEnabled_Return(t) ==
    /\ getter.name = "IsChannelEnabled"
    /\ pc[t] = "return"
    /\ m_channelsEnabled' = Subscripted(m_channelsEnabled, {getter.i})
    /\ ThreadStep(t, "done", replyOf[t],
                  Subscripted(m_channelsEnabled, {getter.i})[getter.i], <<>>)
    /\ UNCHANGED <<m_channelOffsets, m_sampleRateValid, m_memoryDepthValid,
                   timebaseVars, m_triggerOffsetValid, m_triggerOffset>>

\* GetChannelOffset(i), the first scope
GetChannelOffset_Check(t) ==
    /\ getter.name = "GetChannelOffset"
    /\ pc[t] = "call"
    /\ IF getter.i > m_analogChannelCount
       THEN ThreadStep(t, "done", replyOf[t], 0, <<>>)
       ELSE IF getter.i \in DOMAIN m_channelOffsets
       THEN ThreadStep(t, "done", replyOf[t], m_channelOffsets[getter.i], <<>>)
       ELSE ThreadStep(t, "query", replyOf[t], retOf[t], <<>>)
    /\ UNCHANGED raceCache

\* ... the query, with the mutex released
GetChannelOffset_Query(t) ==
    /\ getter.name = "GetChannelOffset"
    /\ pc[t] = "query"
    /\ \E reply \in OffsetReplies :
          ThreadStep(t, "store", reply, retOf[t],
                     <<converse(ChannelCmd(getter.i, ":OFFSET?"), reply)>>)
    /\ UNCHANGED raceCache

\* ... the second scope: store the offset read and return it
GetChannelOffset_Store(t) ==
    /\ getter.name = "GetChannelOffset"
    /\ pc[t] = "store"
    /\ m_channelOffsets' = Assigned(m_channelOffsets, getter.i, replyOf[t])
    /\ ThreadStep(t, "done", replyOf[t], replyOf[t], <<>>)
    /\ UNCHANGED <<m_channelsEnabled, m_sampleRateValid, m_memoryDepthValid,
                   timebaseVars, m_triggerOffsetValid, m_triggerOffset>>

\* GetTriggerOffset(), the first scope
GetTriggerOffset_Check(t) ==
    /\ getter.name = "GetTriggerOffset"
    /\ pc[t] = "call"
    /\ IF m_triggerOffsetValid
       THEN ThreadStep(t, "done", replyOf[t], m_triggerOffset, <<>>)
       ELSE ThreadStep(t, "query", replyOf[t], retOf[t], <<>>)
    /\ UNCHANGED raceCache

\* ... the query, with the mutex released
GetTriggerOffset_Query(t) ==
    /\ getter.name = "GetTriggerOffset"
    /\ pc[t] = "query"
    /\ \E reply \in DelayReplies :
          ThreadStep(t, "store", reply, retOf[t],
                     <<converse(":TIMEBASE:DELAY?", reply)>>)
    /\ UNCHANGED raceCache

\* ... the second scope: convert, store, mark valid and return; the rate and
\* the depth are read (and asked for, if not cached) inside the scope
GetTriggerOffset_Store(t) ==
    /\ getter.name = "GetTriggerOffset"
    /\ pc[t] = "store"
    /\ \E rateReply \in RateReplies, depthReply \in DepthReplies :
          LET rate == RateRead(m_sampleRateValid, m_sampleRate, rateReply)
              depth == DepthRead(m_memoryDepthValid, m_memoryDepth, depthReply)
              offset == HalfWidth(depth.value, rate.value) - replyOf[t]
          IN /\ m_sampleRateValid' = TRUE
             /\ m_sampleRate' = rate.value
             /\ m_memoryDepthValid' = TRUE
             /\ m_memoryDepth' = depth.value
             /\ m_triggerOffsetValid' = TRUE
             /\ m_triggerOffset' = offset
             /\ ThreadStep(t, "done", replyOf[t], offset, rate.io \o depth.io)
    /\ UNCHANGED <<m_channelsEnabled, m_channelOffsets>>

\* No thread is in a getter
RaceIdle ==
    /\ getter = [name |-> "none"]
    /\ pc = [t \in Threads |-> "idle"]
    /\ replyOf = [t \in Threads |-> "-"]
    /\ retOf = [t \in Threads |-> "-"]
    /\ raceIo = <<>>

\* Both threads are about to call the same getter
RaceInit ==
    /\ getter \in RaceGetters
    /\ pc = [t \in Threads |-> "call"]
    /\ replyOf = [t \in Threads |-> "-"]
    /\ retOf = [t \in Threads |-> "-"]
    /\ raceIo = <<>>

---------------------------------------------------------------------------
(* Acquisition *)

\* How many sequence sets the pending-waveform queue is let grow to
MaxPending == 4

\* The loop over the channels i, i + 1, ..., count - 1: step[i] is the list
\* of transport calls made for channel i, and the lists are chained
RECURSIVE ForChannels(_, _, _)
ForChannels(step, i, count) ==
    IF i >= count THEN <<>> ELSE step[i] \o ForChannels(step, i + 1, count)

\* BulkCheckChannelEnableState(): asks for every channel that has no entry,
\* and stores the answer if it is exactly ON or OFF
BulkCheckChannelEnableState(map, replies, count) ==
    [map |-> [k \in (DOMAIN map) \cup {i \in 0..(count - 1) :
                                          replies[i] \in {"ON", "OFF"}} |->
                IF k \in DOMAIN map THEN map[k] ELSE replies[k] = "ON"],
     io |-> ForChannels([i \in 0..(count - 1) |->
                IF i \in DOMAIN map THEN <<>>
                ELSE <<converse(ChannelCmd(i, ":SWITCH?"), replies[i])>>],
                0, count)]

\* The loop of IsChannelEnabled(i) calls that follows it; trace lists, with
\* the transport calls, where each call takes and releases m_cacheMutex
EnabledLoop(map, replies, count) ==
    [map |-> [k \in (DOMAIN map) \cup 0..(count - 1) |->
                IF k \in DOMAIN map THEN map[k] ELSE ~StartsWithOFF(replies[k])],
     io |-> ForChannels([i \in 0..(count - 1) |->
                IF i \in DOMAIN map THEN <<>>
                ELSE <<converse(ChannelCmd(i, ":SWITCH?"), replies[i])>>],
                0, count),
     trace |-> ForChannels([i \in 0..(count - 1) |->
                IF i \in DOMAIN map
                THEN << <<"lock", "m_cacheMutex">>, <<"unlock", "m_cacheMutex">> >>
                ELSE << <<"lock", "m_cacheMutex">>, <<"unlock", "m_cacheMutex">>,
                        converse(ChannelCmd(i, ":SWITCH?"), replies[i]),
                        <<"lock", "m_cacheMutex">>, <<"unlock", "m_cacheMutex">>,
                        <<"lock", "m_cacheMutex">>, <<"unlock", "m_cacheMutex">> >>],
                0, count)]

\* What the instrument sends for a descriptor and for a data block: the
\* header shape and the length it declares
DescBlocks ==
    { [shape |-> "DESC", declared |-> WAVEDESC_SIZE],
      [shape |-> "DESC", declared |-> 0] }

DataBlocks ==
    { [shape |-> "DAT2", declared |-> 5000000],
      [shape |-> "DAT2", declared |-> 20000000],
      [shape |-> "DAT2", declared |-> 0] }

\* The value ReadWaveformBlock(...) returns for such a block read into the
\* descriptor buffer, and its whole outcome for one read into the data
\* buffer; m_highDefinition is never set, so the workaround flag is false
DescRet ==
    [block \in DescBlocks |->
        ReadWaveformBlock(Header(block.shape, block.declared), WAVEDESC_SIZE,
                          FALSE).ret]

DataRet ==
    [block \in DataBlocks |->
        ReadWaveformBlock(Header(block.shape, block.declared), WAVEFORM_SIZE,
                          FALSE)]

\* The reads, as entries of "io"
ReadBlockCall(maxsize, ret) == <<"ReadWaveformBlock", maxsize, ret>>
ReadReply == <<"ReadReply">>
ReadTrailer == <<"ReadRawData", 2>>

\* ReadWavedescs(): the descriptor of every enabled channel is requested and
\* read; a wrong length is logged and the loop goes on
ReadWavedescs(enabled, descs, count) ==
    ForChannels([i \in 0..(count - 1) |->
        IF i \in enabled
        THEN << SendCommandQueued(":WAVEFORM:SOURCE C" \o ToString(i + 1)
                                    \o ";:WAVEFORM:PREAMBLE?"),
                FlushCommandQueue,
                ReadBlockCall(WAVEDESC_SIZE, DescRet[descs[i]]),
                ReadReply >>
        ELSE <<>>],
        0, count)

\* AcquireData(), the data requests and the reads of the data blocks
RequestData(enabled, count) ==
    ForChannels([i \in 0..(count - 1) |->
        IF i \in enabled
        THEN <<SendCommandQueued(":WAVEFORM:SOURCE C" \o ToString(i + 1)
                                    \o ";:WAVEFORM:DATA?")>>
        ELSE <<>>],
        0, count)

ReadData(enabled, datas, count) ==
    ForChannels([i \in 0..(count - 1) |->
        IF i \in enabled
        THEN << ReadBlockCall(WAVEFORM_SIZE, DataRet[datas[i]].ret),
                ReadTrailer >>
        ELSE <<>>],
        0, count)

\* The positions of the trace t whose entry starts with the word kind
Where(t, kind) == {k \in 1..Len(t) : t[k][1] = kind}

\* Held(t, k, mutex): before entry k of the trace the mutex has been locked
\* more often than unlocked
Held(t, k, mutex) ==
    Cardinality({j \in Where(t, "lock") : j < k /\ t[j][2] = mutex})
        > Cardinality({j \in Where(t, "unlock") : j < k /\ t[j][2] = mutex})

\* AcquireData(), the re-arm once all data has been read
Rearm_Always(oneShot) ==
    <<sendOnly(":TRIGGER:MODE SINGLE"), FlushCommandQueue>>

Rearm(oneShot) ==
    IF oneShot THEN <<>>
    ELSE <<sendOnly(":TRIGGER:MODE SINGLE"), FlushCommandQueue>>

\* ProcessAnalogWaveform(data, datalen, ...): one waveform per segment, each
\* converted from num_per_segment bytes of the data buffer, the segment's
\* starting at byte first
ProcessAnalogWaveform_Reversed(datalen, num_sequences) ==
    LET num_samples == datalen
        num_per_segment == num_samples \div num_sequences
    IN [k \in 1..num_sequences |->
           [segment |-> num_sequences - k,
            first |-> (num_sequences - k) * num_per_segment,
            count |-> num_per_segment]]

ProcessAnalogWaveform(datalen, num_sequences) ==
    LET num_samples == datalen
        num_per_segment == num_samples \div num_sequences
    IN [k \in 1..num_sequences |->
           [segment |-> k - 1, first |-> (k - 1) * num_per_segment,
            count |-> num_per_segment]]

\* An AcquireData() call returns, or ends in a trap: pushed is the number of
\* sets appended to m_pendingWaveforms, trace the locks taken and released,
\* the transport calls and the processing steps, in order.
AcquireReturn(map, armed, enabled, descs, datas, sequences, pushed, ret, io, trace) ==
    LET waveforms == [i \in enabled |->
            ProcessAnalogWaveform(DataRet[datas[i]].ret, sequences)]
    IN
    /\ m_channelsEnabled' = map
    /\ m_triggerArmed' = armed
    /\ m_pendingWaveforms' = m_pendingWaveforms + pushed
    /\ acq' = [op |-> "AcquireData", enabled |-> enabled,
               descRet |-> [i \in enabled |-> DescRet[descs[i]]],
               dataRet |-> [i \in enabled |-> DataRet[datas[i]].ret],
               dataRead |-> [i \in enabled |-> DataRet[datas[i]].written],
               waveforms |-> waveforms,
               sets |-> [k \in 1..pushed |->
                            [i \in enabled |-> waveforms[i][k]]],
               num_sequences |-> sequences, pushed |-> pushed, ret |-> ret,
               io |-> io, trace |-> trace,
               trapped |-> Where(trace, "trap") # {}]
    /\ UNCHANGED <<m_triggerOneShot, m_triggerForced, trigLog, blockVars,
                   m_analogChannelCount, m_sampleRateValid, m_memoryDepthValid,
                   timebaseVars, cacheCall, configVars, raceVars, importVars,
                   identVars, exch>>

\* AcquireData(): replies are the answers to the enable queries, descs and
\* datas the blocks the instrument sends per channel, and trigtime_len the
\* field at offset 48 of the first descriptor.
AcquireData(replies, descs, datas, trigtime_len) ==
    \E bulk \in {BulkCheckChannelEnableState(m_channelsEnabled, replies,
                                             m_analogChannelCount)} :
    \E loop \in {EnabledLoop(bulk.map, replies, m_analogChannelCount)} :
    \E enabled \in {{i \in 0..(m_analogChannelCount - 1) : loop.map[i]}} :
    \E descriptors \in {ReadWavedescs(enabled, descs, m_analogChannelCount)} :
    LET count == m_analogChannelCount
        head == bulk.io \o loop.io \o descriptors
        num_sequences == IF trigtime_len > 0 THEN trigtime_len \div 16 ELSE 1
        rearm == Rearm(m_triggerOneShot)
        exchange == RequestData(enabled, count)
                    \o <<FlushCommandQueue>>
                    \o (IF num_sequences > 1 THEN <<ReadReply>> ELSE <<>>)
                    \o ReadData(enabled, datas, count)
                    \o rearm
        \* BulkCheckChannelEnableState() scans the cache under m_cacheMutex
        entry == << <<"lock", "transport">>,
                    <<"lock", "m_cacheMutex">>, <<"unlock", "m_cacheMutex">> >>
                 \o bulk.io \o loop.trace \o descriptors
        crunch == ForChannels([i \in 0..(count - 1) |->
                      IF i \in enabled THEN <<<<"ProcessAnalogWaveform", i>>>>
                      ELSE <<>>], 0, count)
                  \o << <<"lock", "m_pendingWaveformsMutex">> >>
                  \o [k \in 1..num_sequences |-> <<"push_back", k - 1>>]
                  \o << <<"unlock", "m_pendingWaveformsMutex">> >>
    IN /\ ~acq.trapped
       /\ m_pendingWaveforms + num_sequences <= MaxPending
       /\ IF enabled = {}
          THEN AcquireReturn(loop.map, m_triggerArmed, enabled, descs, datas, 1,
                             0, FALSE, head,
                             entry \o << <<"unlock", "transport">> >>)
          ELSE \/ AcquireReturn(loop.map, m_triggerArmed \/ ~m_triggerOneShot,
                                enabled, descs, datas, num_sequences,
                                num_sequences, TRUE, head \o exchange,
                                entry \o exchange \o crunch
                                      \o << <<"unlock", "transport">> >>)
               \* num_samples / num_sequences with num_sequences = 0 is
               \* undefined: the division may also trap, in the first
               \* ProcessAnalogWaveform call
               \/ /\ num_sequences = 0
                  /\ AcquireReturn(loop.map, m_triggerArmed \/ ~m_triggerOneShot,
                                   enabled, descs, datas, num_sequences,
                                   0, FALSE, head \o exchange,
                                   entry \o exchange
                                         \o << <<"ProcessAnalogWaveform",
                                                 CHOOSE i \in enabled :
                                                   \A j \in enabled : i <= j>>,
                                               <<"trap", "SIGFPE">> >>)

\* What thread t runs: thread 1 the AcquireData() call made, thread 2 the
\* SetSampleDepth() call made, whose body lies within a lock_guard on the
\* transport mutex
Program_Unlocked(t) ==
    IF t = 1
    THEN IF acq.op = "AcquireData"
         THEN SelectSeq(acq.trace,
                  LAMBDA e : ~(e[1] \in {"lock", "unlock"} /\ e[2] = "transport"))
         ELSE <<>>
    ELSE IF cacheCall.op = "SetSampleDepth"
         THEN << <<"lock", "transport">> >> \o cacheCall.io
                  \o << <<"unlock", "transport">> >>
         ELSE <<>>

Program(t) ==
    IF t = 1
    THEN IF acq.op = "AcquireData" THEN acq.trace ELSE <<>>
    ELSE IF cacheCall.op = "SetSampleDepth"
         THEN << <<"lock", "transport">> >> \o cacheCall.io
                  \o << <<"unlock", "transport">> >>
         ELSE <<>>

\* Thread t takes the next entry of what it runs: locking the transport
\* mutex waits until no other thread holds it, and a call on the transport
\* is put on the wire as <<thread, position>>.
TransportStep(t) ==
    LET k == exch.at[t] + 1 IN
    /\ k <= Len(Program(t))
    /\ (Program(t)[k][1] = "lock" /\ Program(t)[k][2] = "transport") =>
          \A u \in Threads \ {t} :
              ~Held(Program(u), exch.at[u] + 1, "transport")
    /\ exch' = [at |-> [exch.at EXCEPT ![t] = k],
                wire |-> IF Program(t)[k][1] \in
                              {"SendCommandQueued", "SendCommandQueuedWithReply",
                               "FlushCommandQueue", "ReadWaveformBlock",
                               "ReadReply", "ReadRawData"}
                         THEN Append(exch.wire, <<t, k>>)
                         ELSE exch.wire]
    /\ UNCHANGED <<acq, m_pendingWaveforms, trigVars, blockVars, cacheVars,
                   configVars, raceVars, importVars, identVars>>

\* GetSampleRate(): the members read and written and the transport call, in
\* program order; io holds the transport calls the call made (none when the
\* cached rate was valid). No mutex is locked.
GetSampleRateTrace(io) ==
    << <<"read", "m_sampleRateValid">> >>
        \o (IF io = <<>> THEN <<>>
            ELSE io \o << <<"write", "m_sampleRate">>,
                          <<"write", "m_sampleRateValid">> >>)
        \o << <<"read", "m_sampleRate">> >>

\* GetSampleDepth(), likewise
GetSampleDepthTrace(io) ==
    << <<"read", "m_memoryDepthValid">> >>
        \o (IF io = <<>> THEN <<>>
            ELSE io \o << <<"write", "m_memoryDepth">>,
                          <<"write", "m_memoryDepthValid">> >>)
        \o << <<"read", "m_memoryDepth">> >>

\* GetTriggerOffset(): the first scope locks the cache mutex for the check;
\* the delay is asked for with the mutex released; the second lock_guard is
\* held to the end of the function, over GetSampleRate() and GetSampleDepth()
GetTriggerOffsetTrace(io) ==
    IF io = <<>>
    THEN << <<"lock", "m_cacheMutex">>, <<"read", "m_triggerOffsetValid">>,
            <<"read", "m_triggerOffset">>, <<"unlock", "m_cacheMutex">> >>
    ELSE << <<"lock", "m_cacheMutex">>, <<"read", "m_triggerOffsetValid">>,
            <<"unlock", "m_cacheMutex">>, io[1],
            <<"lock", "m_cacheMutex">>, <<"write", "m_triggerOffset">> >>
          \o GetSampleRateTrace(SelectSeq(io,
                    LAMBDA e : e[2] = ":ACQUIRE:SRATE?"))
          \o GetSampleDepthTrace(SelectSeq(io,
                    LAMBDA e : e[2] = ":ACQUIRE:MDEPTH?"))
          \o << <<"read", "m_triggerOffset">>, <<"write", "m_triggerOffset">>,
                <<"write", "m_triggerOffsetValid">>,
                <<"read", "m_triggerOffset">>, <<"unlock", "m_cacheMutex">> >>

\* The trace of the last timebase or trigger-offset getter called
GetterTrace ==
    IF cacheCall.op = "GetSampleRate" THEN GetSampleRateTrace(cacheCall.io)
    ELSE IF cacheCall.op = "GetSampleDepth"
    THEN GetSampleDepthTrace(cacheCall.io)
    ELSE IF cacheCall.op = "GetTriggerOffset"
    THEN GetTriggerOffsetTrace(cacheCall.io)
    ELSE <<>>

\* converse(): the round trip SendCommandQueuedWithReply, made with the
\* transport mutex locked for its duration
RECURSIVE RoundTripsLocked(_)
RoundTripsLocked(t) ==
    IF t = <<>> THEN <<>>
    ELSE (IF Head(t)[1] = "SendCommandQueuedWithReply"
          THEN << <<"lock", "transport">>, Head(t),
                  <<"unlock", "transport">> >>
          ELSE <<Head(t)>>) \o RoundTripsLocked(Tail(t))

\* What thread t runs: thread 1 the AcquireData() call made, thread 2 the
\* GetTriggerOffset() call made
LockProgram(t) ==
    IF t = 1
    THEN IF acq.op = "AcquireData" THEN RoundTripsLocked(acq.trace) ELSE <<>>
    ELSE IF cacheCall.op = "GetTriggerOffset"
         THEN RoundTripsLocked(GetterTrace)
         ELSE <<>>

\* Thread t takes the next entry of what it runs; locking a mutex waits
\* until no other thread holds it (a recursive_mutex: the thread that holds
\* it may lock it again).
LockStep(t) ==
    LET k == exch.at[t] + 1 IN
    /\ k <= Len(LockProgram(t))
    /\ LockProgram(t)[k][1] = "lock" =>
          \A u \in Threads \ {t} :
              ~Held(LockProgram(u), exch.at[u] + 1, LockProgram(t)[k][2])
    /\ exch' = [at |-> [exch.at EXCEPT ![t] = k], wire |-> exch.wire]
    /\ UNCHANGED <<acq, m_pendingWaveforms, trigVars, blockVars, cacheVars,
                   configVars, raceVars, importVars, identVars>>

\* No acquisition has been made
AcqIdle ==
    /\ acq = [op |-> "none", trapped |-> FALSE]
    /\ m_pendingWaveforms = 0
    /\ exch = [at |-> [t \in Threads |-> 0], wire |-> <<>>]

---------------------------------------------------------------------------
(* Capture-file import: unpacking digital samples *)

\* How many packed bytes an unpack call is given at most
MaxBytes == 5

\* The byte values the input is made of: no bit, alternating bits both ways,
\* every bit
ByteValues == {0, 90, 165, 255}

\* a & b on bytes
RECURSIVE BitAnd(_, _)
BitAnd(a, b) ==
    IF a = 0 \/ b = 0 THEN 0
    ELSE (a % 2) * (b % 2) + 2 * BitAnd(a \div 2, b \div 2)

\* An output buffer for `count` bytes, nothing assigned yet (-1)
Unassigned(count) == [x \in 0..(8 * count - 1) |-> -1]

\* ConvertDigitalSamplesGeneric(pout, pin, count): pout afterwards. The
\* source's pin[i] is bytes[i + 1] here, and a >> j is a \div 2^j.
ConvertDigitalSamplesGeneric(pout, bytes, count) ==
    [x \in DOMAIN pout |->
        IF x < 8 * count
        THEN BitAnd(bytes[x \div 8 + 1] \div (2 ^ (x % 8)), 1)
        ELSE pout[x]]

\* Byte n of every 64-bit lane of the mask 0x8040201008040201
bitmask(n) == 2 ^ n

\* One byte lane of the vector loop: lane 8*b + n holds block b (the lowest
\* lanes hold block0), is masked, compared with the mask (all ones when
\* equal) and masked with 1.
Lane(block, n) ==
    LET result == BitAnd(block, bitmask(n))
        cmpeq == IF result = bitmask(n) THEN 255 ELSE 0
    IN BitAnd(cmpeq, 1)

ConvertDigitalSamplesAVX2_NoTail(pout, bytes, count) ==
    LET end == count - (count % 4) IN
    [x \in DOMAIN pout |->
        IF x < 8 * end
        THEN Lane(bytes[4 * (x \div 32) + ((x % 32) \div 8) + 1], x % 8)
        ELSE pout[x]]

\* ConvertDigitalSamplesAVX2(pout, pin, count): pout afterwards. Iteration k
\* stores 32 lanes at pout + k*8; the bytes from `end` on go through the
\* scalar loop.
ConvertDigitalSamplesAVX2(pout, bytes, count) ==
    LET end == count - (count % 4) IN
    [x \in DOMAIN pout |->
        IF x < 8 * end
        THEN Lane(bytes[4 * (x \div 32) + ((x % 32) \div 8) + 1], x % 8)
        ELSE IF x < 8 * count
        THEN BitAnd(bytes[x \div 8 + 1] \div (2 ^ (x % 8)), 1)
        ELSE pout[x]]

\* The scalar routine is run on the whole input
UnpackGeneric ==
    /\ unpackOut' = [unpackOut EXCEPT
            !.ran = @ \cup {"Generic"},
            !.generic = ConvertDigitalSamplesGeneric(Unassigned(Len(pin)), pin,
                                                     Len(pin))]
    /\ UNCHANGED <<pin, splitVars, fileVars, scopeVars>>

\* The vector routine is run on the whole input
UnpackAVX2 ==
    /\ unpackOut' = [unpackOut EXCEPT
            !.ran = @ \cup {"AVX2"},
            !.avx2 = ConvertDigitalSamplesAVX2(Unassigned(Len(pin)), pin,
                                               Len(pin))]
    /\ UNCHANGED <<pin, splitVars, fileVars, scopeVars>>

NotUnpacked(count) ==
    [ran |-> {}, generic |-> Unassigned(count), avx2 |-> Unassigned(count)]

\* Some input of at most MaxBytes bytes, no routine run yet
UnpackInit ==
    /\ pin \in UNION {[1..n -> ByteValues] : n \in 0..MaxBytes}
    /\ unpackOut = NotUnpacked(Len(pin))

UnpackIdle ==
    /\ pin = <<>>
    /\ unpackOut = NotUnpacked(0)

---------------------------------------------------------------------------
(* Capture-file import: splitting the unpack work among threads *)

\* The largest value omp_get_max_threads() returns here
MaxWorkers == 3

\* Byte counts ConvertDigitalSamples is called with, on both sides of the
\* point where it starts to split
SplitCounts ==
    {0, 1, 4, 124999, 125000, 125001, 125002, 125003, 125004, 125007, 250000,
     1000000}

\* The arguments block i of the parallel loop hands to the unpack routine:
\* pout + off, pin + off, nsamp
BlockCall(i, count, numblocks) ==
    LET lastblock == numblocks - 1
        blocksize == (count \div numblocks) - ((count \div numblocks) % 4)
        nsamp == IF i = lastblock THEN count - i * blocksize ELSE blocksize
        off == i * blocksize
    IN [pout |-> off, pin |-> off, nsamp |-> nsamp, done |-> FALSE]

\* ConvertDigitalSamples(pout, pin, count) is entered. Above the threshold
\* the blocks of the parallel loop are handed out; otherwise the one call is
\* made on the caller's thread and the routine returns.
ConvertDigitalSamples_Enter(count, numblocks) ==
    /\ split.returned
    /\ split' =
        IF count > (1000000 \div 8)
        THEN [op |-> "ConvertDigitalSamples", count |-> count,
              numblocks |-> numblocks, parallel |-> TRUE,
              calls |-> [i \in 0..(numblocks - 1) |->
                            BlockCall(i, count, numblocks)],
              returned |-> FALSE]
        ELSE [op |-> "ConvertDigitalSamples", count |-> count,
              numblocks |-> numblocks, parallel |-> FALSE,
              calls |-> [i \in {0} |-> [pout |-> 0, pin |-> 0, nsamp |-> count,
                                        done |-> TRUE]],
              returned |-> TRUE]
    /\ UNCHANGED <<unpackVars, fileVars, scopeVars>>

\* A thread of the team runs iteration i: the unpack routine (either variant)
\* writes pout[off + 8k + j] from pin[off + k] for 0 <= k < nsamp
ConvertDigitalSamples_Block(i) ==
    /\ split.op = "ConvertDigitalSamples"
    /\ ~split.returned
    /\ i \in DOMAIN split.calls
    /\ ~split.calls[i].done
    /\ split' = [split EXCEPT !.calls[i].done = TRUE]
    /\ UNCHANGED <<unpackVars, fileVars, scopeVars>>

\* The barrier that ends the parallel loop: the routine returns
ConvertDigitalSamples_Join ==
    /\ split.op = "ConvertDigitalSamples"
    /\ ~split.returned
    /\ \A i \in DOMAIN split.calls : split.calls[i].done
    /\ split' = [split EXCEPT !.returned = TRUE]
    /\ UNCHANGED <<unpackVars, fileVars, scopeVars>>

\* No call has been made (and none is running)
SplitIdle == split = [op |-> "none", returned |-> TRUE]

---------------------------------------------------------------------------
(* Capture-file import: OnFileNameChanged, both revisions in the source *)

\* A capture file: file header, waveform header and payload. Gains, probe
\* factors and offsets are whole numbers in some small unit of voltage. The
\* payload is the region from the version's base offset (0x800 or 0x1000) on;
\* as 16-bit little-endian codes its first eight bytes are 32767, 32768, 0,
\* 65535; as 8-bit codes 255, 127, 0, 128, ...
CaptureFile(version, data_width, wave_length, en, math, digital, d_len) ==
    [fname |-> "capture.bin", version |-> version,
     data_width |-> data_width, wave_length |-> wave_length,
     ch_en |-> [i \in 0..3 |-> en[i + 1]],
     ch_v_gain |-> [i \in 0..3 |-> 2 + i],
     ch_probe |-> [i \in 0..3 |-> IF i = 0 THEN 10 ELSE 1],
     ch_codes_per_div |-> [i \in 0..3 |-> 25 + 5 * i],
     ch_v_offset |-> [i \in 0..3 |-> i - 1],
     math_en |-> [i \in 0..3 |-> math[i + 1]],
     math_wave_length |-> [i \in 0..3 |-> IF i = 2 THEN 2 ELSE 1],
     math_v_gain |-> [i \in 0..3 |-> 3],
     math_v_offset |-> [i \in 0..3 |-> 1],
     math_codes_per_div |-> 25,
     digital_en |-> digital,
     d_ch_en |-> [i \in 0..15 |-> IF i = 3 THEN 1 ELSE 0],
     d_wave_length |-> d_len,
     payload |-> <<255, 127, 0, 128, 0, 0, 255, 255, 165, 90, 1, 2,
                   60, 195, 170, 85, 15, 240>>]

\* The files loaded: en holds the enable flags of the four analog channels,
\* md those of the math channels and of the digital channels, and the
\* digital wave length
Files ==
    { CaptureFile(version, data_width, wave_length, en, md[1], md[2], md[3]) :
        version \in {2, 3, 4}, data_width \in {0, 1}, wave_length \in {0, 2},
        en \in {<<0, 0, 0, 0>>, <<1, 0, 0, 0>>, <<0, 1, 0, 1>>, <<2, 0, 1, 0>>},
        md \in {<<<<0, 0, 0, 0>>, 0, 8>>, <<<<0, 1, 0, 0>>, 0, 8>>,
                <<<<0, 1, 0, 0>>, 1, 8>>, <<<<0, 1, 1, 0>>, 1, 12>>} }

\* The file name parameter is empty
NoFile == [fname |-> ""]

\* switch(fh.version): case 2 and case 4 go on, default returns
VersionSupported_Also3(version) == version \in {2, 3, 4}

VersionSupported(version) == version \in {2, 4}

\* *(uint16_t*)(f.c_str() + fpos) or *(uint8_t*)(f.c_str() + fpos), fpos
\* counted from the base offset; the 16-bit read is little-endian
Code(payload, fpos, data_width) ==
    IF data_width = 2 THEN payload[fpos + 1] + 256 * payload[fpos + 2]
    ELSE payload[fpos + 1]

\* center_code = (1 << (8*data_width - 1)) - 1
center_code(data_width) == 2 ^ (8 * data_width - 1) - 1

\* Voltages are held exactly: v_gain = v_gain * probe_factor / codes_per_div
\* is kept as its numerator, and a sample as its value times codes_per_div.
\* Rounding to float is not modelled.

EarlierSamples_CenterAbove(f, i, fpos) ==
    LET data_width == f.data_width + 1
        v_gain == f.ch_v_gain[i] * f.ch_probe[i]
    IN [j \in 1..f.wave_length |->
            (Code(f.payload, fpos + (j - 1) * data_width, data_width)
                - (center_code(data_width) + 1)) * v_gain
            - f.ch_v_offset[i] * f.ch_codes_per_div[i]]

EarlierSamples_GainOnOffset(f, i, fpos) ==
    LET data_width == f.data_width + 1
        v_gain == f.ch_v_gain[i] * f.ch_probe[i]
    IN [j \in 1..f.wave_length |->
            (Code(f.payload, fpos + (j - 1) * data_width, data_width)
                - center_code(data_width)
                - f.ch_v_offset[i] * f.ch_codes_per_div[i]) * v_gain]

\* Earlier revision, the two sample loops:
\* value = ((int32_t)*sample - (int32_t)center_code) * v_gain - v_offset
EarlierSamples(f, i, fpos) ==
    LET data_width == f.data_width + 1
        v_gain == f.ch_v_gain[i] * f.ch_probe[i]
    IN [j \in 1..f.wave_length |->
            (Code(f.payload, fpos + (j - 1) * data_width, data_width)
                - center_code(data_width)) * v_gain
            - f.ch_v_offset[i] * f.ch_codes_per_div[i]]

\* Oscilloscope::ConvertUnsigned16BitSamples(pout, pin, gain, offset, count)
\* and its 8-bit twin: pout[k] = pin[k] * gain - offset
ConvertUnsigned16BitSamples(codes, gain, offset, count) ==
    [k \in 1..count |-> codes[k] * gain - offset]

ConvertUnsigned8BitSamples(codes, gain, offset, count) ==
    [k \in 1..count |-> codes[k] * gain - offset]

\* Later revision: the conversion of `count` codes at fpos with the gain
\* numerator v_gain, the stored offset v_offset and the divisor per_div
LaterSamples(f, fpos, count, v_gain, v_offset, per_div) ==
    LET data_width == f.data_width + 1
        codes == [k \in 1..count |->
                    Code(f.payload, fpos + (k - 1) * data_width, data_width)]
        offset == v_gain * center_code(data_width) + v_offset * per_div
    IN IF data_width = 2
       THEN ConvertUnsigned16BitSamples(codes, v_gain, offset, count)
       ELSE ConvertUnsigned8BitSamples(codes, v_gain, offset, count)

PayloadBase_Always800(version) == 2048

\* switch(fh.version) before the payload is read: fpos = 0x800 or 0x1000
PayloadBase(version) == IF version = 2 THEN 2048 ELSE 4096

\* A stream with its waveform; from and to bound the bytes of the file read
\* for it, [from, to)
Stream(name, type, samples, from, to) ==
    [name |-> name, type |-> type, samples |-> samples,
     from |-> from, to |-> to]

\* The loop over the analog channels from channel i on, reading at fpos
\* (counted from the base offset): the streams afterwards and the read
\* position; `later` picks the revision
RECURSIVE AnalogChannels(_, _, _, _, _)
AnalogChannels(later, f, i, fpos, streams) ==
    IF i >= 4 THEN [streams |-> streams, fpos |-> fpos]
    ELSE IF f.ch_en[i] # 1
    THEN AnalogChannels(later, f, i + 1, fpos, streams)
    ELSE AnalogChannels(later, f, i + 1,
            fpos + (f.data_width + 1) * f.wave_length,
            Append(streams,
                Stream("C" \o ToString(i + 1), "analog",
                    IF later
                    THEN LaterSamples(f, fpos, f.wave_length,
                            f.ch_v_gain[i] * f.ch_probe[i], f.ch_v_offset[i],
                            f.ch_codes_per_div[i])
                    ELSE EarlierSamples(f, i, fpos),
                    PayloadBase(f.version) + fpos,
                    PayloadBase(f.version) + fpos
                        + (f.data_width + 1) * f.wave_length)))

\* Later revision: the loop over the math channels
RECURSIVE MathChannels(_, _, _, _)
MathChannels(f, i, fpos, streams) ==
    IF i >= 4 THEN [streams |-> streams, fpos |-> fpos]
    ELSE IF f.math_en[i] # 1 THEN MathChannels(f, i + 1, fpos, streams)
    ELSE MathChannels(f, i + 1,
            fpos + (f.data_width + 1) * f.math_wave_length[i],
            Append(streams,
                Stream("F" \o ToString(i + 1), "analog",
                    LaterSamples(f, fpos, f.math_wave_length[i],
                        f.math_v_gain[i], f.math_v_offset[i],
                        f.math_codes_per_div),
                    PayloadBase(f.version) + fpos,
                    PayloadBase(f.version) + fpos
                        + (f.data_width + 1) * f.math_wave_length[i])))

\* Later revision: the loop over the digital channels. The waveform is
\* resized to d_wave_length and d_wave_length / 8 bytes are unpacked; such
\* counts are below the threshold, so one call of an unpack routine is made.
RECURSIVE DigitalChannels(_, _, _, _)
DigitalChannels(f, i, fpos, streams) ==
    IF i >= 16 THEN [streams |-> streams, fpos |-> fpos]
    ELSE IF f.d_ch_en[i] # 1 THEN DigitalChannels(f, i + 1, fpos, streams)
    ELSE LET count == f.d_wave_length \div 8 IN
         DigitalChannels(f, i + 1, fpos + count,
            Append(streams,
                Stream("D" \o ToString(i), "digital",
                    ConvertDigitalSamplesGeneric(
                        [x \in 0..(f.d_wave_length - 1) |-> -1],
                        SubSeq(f.payload, fpos + 1, fpos + count), count),
                    PayloadBase(f.version) + fpos,
                    PayloadBase(f.version) + fpos + count)))

\* An OnFileNameChanged() call returns.
ImportReturn(f, revision, failed, streams) ==
    /\ file' = f
    /\ m_streams' = streams
    /\ importCall' = [op |-> "OnFileNameChanged", revision |-> revision,
                      streamsBefore |-> Len(m_streams), failed |-> failed]
    /\ UNCHANGED <<unpackVars, splitVars, scopeVars>>

\* Earlier revision of OnFileNameChanged(), run on the file f: the streams
\* are cleared, then the analog channels are decoded.
OnFileNameChanged_Earlier(f) ==
    IF f.fname = "" THEN ImportReturn(f, "earlier", FALSE, <<>>)
    ELSE IF ~VersionSupported(f.version)
    THEN ImportReturn(f, "earlier", TRUE, <<>>)
    ELSE ImportReturn(f, "earlier", FALSE,
            AnalogChannels(FALSE, f, 0, 0, <<>>).streams)

\* Later revision of OnFileNameChanged(), run on the file f: the streams are
\* cleared, then the analog, math and digital channels are decoded.
OnFileNameChanged(f) ==
    IF f.fname = "" THEN ImportReturn(f, "later", FALSE, <<>>)
    ELSE IF ~VersionSupported(f.version)
    THEN ImportReturn(f, "later", TRUE, <<>>)
    ELSE LET analog == AnalogChannels(TRUE, f, 0, 0, <<>>)
             math == MathChannels(f, 0, analog.fpos, analog.streams)
         IN ImportReturn(f, "later", FALSE,
                IF f.digital_en # 0
                THEN DigitalChannels(f, 0, math.fpos, math.streams).streams
                ELSE math.streams)

\* The filter as constructed: no file name, no stream
FileIdle ==
    /\ file = NoFile
    /\ m_streams = <<>>
    /\ importCall = [op |-> "none"]

---------------------------------------------------------------------------
(* Construction: identification and channel enumeration *)

\* Strings the code indexes or scans are sequences of characters.

\* sscanf(reply, "%127[^,],%127[^,],%127[^,],%127s", ...): n is the value
\* returned, the number of conversions stored (EOF, -1, on an empty reply).
\* A %[^,] conversion fails on an empty field.  No field of the model
\* reaches 127 characters.
ScanIDN(reply) ==
    LET First(hits) == IF hits = {} THEN Len(reply) + 1
                       ELSE CHOOSE i \in hits : \A j \in hits : i <= j
        \* where the %[^,] conversion starting at from stops
        CommaFrom(from) == First({i \in from..Len(reply) : reply[i] = ","})
        e1 == CommaFrom(1)
        e2 == CommaFrom(e1 + 1)
        e3 == CommaFrom(e2 + 1)
        \* %s skips leading white space and stops at the next white space
        start == First({i \in (e3 + 1)..Len(reply) : ~IsSpace(reply[i])})
        stop == First({i \in start..Len(reply) : IsSpace(reply[i])})
        f1 == SubSeq(reply, 1, e1 - 1)
        f2 == SubSeq(reply, e1 + 1, e2 - 1)
        f3 == SubSeq(reply, e2 + 1, e3 - 1)
        f4 == SubSeq(reply, start, stop - 1)
    IN [vendor |-> f1, model |-> f2, serial |-> f3, version |-> f4,
        n |-> IF reply = <<>> THEN -1
              ELSE IF f1 = <<>> THEN 0
              ELSE IF e1 > Len(reply) \/ f2 = <<>> THEN 1
              ELSE IF e2 > Len(reply) \/ f3 = <<>> THEN 2
              ELSE IF e3 > Len(reply) \/ f4 = <<>> THEN 3
              ELSE 4]

\* IdentifyHardware(): id holds the members before the call, reply is the
\* answer to *IDN?.
IdentifyHardware(id, reply) ==
    LET scan == ScanIDN(reply)
        io == <<converse("*IDN?", reply)>>
        m == scan.model
        Siglent ==
            <<"S", "i", "g", "l", "e", "n", "t", " ",
              "T", "e", "c", "h", "n", "o", "l", "o", "g", "i", "e", "s">>
        plus == /\ scan.vendor = Siglent
                /\ Len(m) >= 4
                /\ SubSeq(m, 1, 4) = <<"S", "D", "S", "2">>
                /\ m[Len(m)] = "s"
        digit == IF Len(m) >= 5 THEN m[5] ELSE ""
    IN IF scan.n # 4
       THEN [id EXCEPT !.io = io]
       ELSE [id EXCEPT !.io = io,
                       !.m_vendor = scan.vendor,
                       !.m_model = m,
                       !.m_serial = scan.serial,
                       !.m_fwVersion = scan.version,
                       !.m_modelid = IF plus THEN "MODEL_SIGLENT_SDS2000XP"
                                     ELSE "MODEL_UNKNOWN",
                       !.m_maxBandwidth =
                           IF ~plus THEN 0
                           ELSE IF digit = "5" THEN 500
                           ELSE IF digit = "2" THEN 200
                           ELSE IF digit = "3" THEN 350
                           ELSE 100]

\* The channel DetectAnalogChannels() creates for index i
Channel(i) == [hwname |-> <<"C1", "C2", "C3", "C4">>[i + 1], index |-> i]

\* DetectAnalogChannels(): the channels pushed onto m_channels, in order
DetectAnalogChannels(m_model) ==
    LET nchans == IF Len(m_model) > 7 /\ m_model[7] = "2" THEN 2
                  ELSE IF Len(m_model) > 7 /\ m_model[7] = "4" THEN 4
                  ELSE 1
    IN [k \in 1..nchans |-> Channel(k - 1)]

\* SharedCtorInit(): the commands sent and the outcome of its PollTrigger()
SharedCtorInit(m_modelid, sinr) ==
    [io |-> (IF m_modelid = "MODEL_SIGLENT_SDS2000XP"
             THEN <<sendOnly("CHDR OFF"), sendOnly(":WAVEFORM:WIDTH BYTE")>>
             ELSE <<>>)
            \o (IF m_triggerForced THEN <<>>
                ELSE <<converse(":TRIGGER:STATUS?", sinr)>>),
     armed |-> IF m_triggerForced THEN FALSE
               ELSE IF sinr = "Arm" \/ sinr = "Ready" THEN TRUE
               ELSE IF sinr = "Stop" /\ m_triggerArmed /\ m_triggerOneShot
               THEN FALSE
               ELSE m_triggerArmed]

\* The constructor: FlushConfigCache() (the cache is still empty),
\* IdentifyHardware(), DetectAnalogChannels(), SharedCtorInit().
SiglentMinOscilloscope(reply, sinr) ==
    /\ ~ident.constructed
    /\ LET id == IdentifyHardware(ident, reply)
           chans == DetectAnalogChannels(id.m_model)
           shared == SharedCtorInit(id.m_modelid, sinr)
       IN /\ ident' = [id EXCEPT !.constructed = TRUE,
                                 !.io = id.io \o shared.io]
          /\ m_channels' = m_channels \o chans
          /\ m_analogChannelCount' = Len(chans)
          /\ m_triggerArmed' = shared.armed
          /\ m_triggerForced' = FALSE
    /\ UNCHANGED <<m_triggerOneShot, trigLog, blockVars, m_channelsEnabled,
                   m_sampleRateValid, m_memoryDepthValid, timebaseVars,
                   cacheCall, configVars, raceVars, acqVars, importVars>>

\* An instrument already constructed (its identity strings are not
\* followed further)
IdentIdle ==
    /\ ident = [constructed |-> TRUE]
    /\ m_channels = [k \in 1..m_analogChannelCount |-> Channel(k - 1)]

ImportIdle == UnpackIdle /\ SplitIdle /\ FileIdle

RestIdle == AcqIdle /\ ImportIdle /\ IdentIdle

\* The state the constructor leaves: armed and one-shot start false, and
\* SharedCtorInit() polls once.  m_triggerForced has no initializer, so that
\* poll either takes the forced branch (armed stays false) or asks the
\* instrument (armed becomes true on Arm/Ready); both leave forced false.
TrigInit ==
    /\ m_triggerArmed \in BOOLEAN
    /\ m_triggerOneShot = FALSE
    /\ m_triggerForced = FALSE
    /\ trigLog = <<>>

\* No block has been read yet.
BlockInit ==
    /\ blk = NoBlock
    /\ prevBlk = NoBlock

\* The constructor flushes the cache and counts the channels; nothing it
\* calls afterwards touches m_channelsEnabled.
CacheInit ==
    /\ m_analogChannelCount \in ChannelCounts
    /\ m_channelsEnabled = <<>>
    /\ m_sampleRateValid = FALSE
    /\ m_sampleRate = 1
    /\ m_memoryDepthValid = FALSE
    /\ m_memoryDepth = 1
    /\ cacheCall = [op |-> "none"]

\* A 4-channel instrument, for the specifications that leave the cache alone
CacheIdle ==
    /\ CacheInit
    /\ m_analogChannelCount = MAX_ANALOG

\* What the specifications of the trigger, the block reader and the
\* channel-enable cache never touch
ExtIdle == ConfigInit /\ RaceIdle /\ RestIdle

Init == TrigInit /\ BlockInit /\ CacheIdle /\ ExtIdle

Next ==
    \/ \E sinr \in StatusReplies : PollTrigger(sinr)
    \/ Start
    \/ StartSingleTrigger
    \/ Stop
    \/ ForceTrigger

Spec == Init /\ [][Next]_vars

\* The block reader on its own, called again and again
NextBlock == CallReadWaveformBlock

InitBlock ==
    /\ TrigInit
    /\ ~m_triggerArmed
    /\ BlockInit
    /\ CacheIdle
    /\ ExtIdle

SpecBlock == InitBlock /\ [][NextBlock]_vars

\* The channel-enable cache and the timebase validity flags
InitCache ==
    /\ TrigInit
    /\ ~m_triggerArmed
    /\ BlockInit
    /\ CacheInit
    /\ ExtIdle

NextCache ==
    \/ IsInterleaving
    \/ \E i \in ChannelIndices, reply \in SwitchReplies : IsChannelEnabled(i, reply)
    \/ \E i \in ChannelIndices : EnableChannel(i)
    \/ \E i \in ChannelIndices : DisableChannel(i)
    \/ GetSampleRate
    \/ GetSampleDepth
    \/ FlushConfigCache

SpecCache == InitCache /\ [][NextCache]_vars

\* The same on a 4-channel instrument, where channel pairs {0,1} and {2,3}
\* both exist
InitCache4 ==
    /\ InitCache
    /\ m_analogChannelCount = MAX_ANALOG

SpecCache4 == InitCache4 /\ [][NextCache]_vars

\* The channel setters, called for the last channel and for the two indices
\* past it, on a 1-, 2- or 4-channel instrument
NextSetters ==
    LET around == (m_analogChannelCount - 1)..(m_analogChannelCount + 1) IN
    \/ \E i \in around : EnableChannel(i)
    \/ \E i \in around : DisableChannel(i)
    \/ \E i \in around : SetChannelOffset(i, 1)
    \/ \E i \in around : SetChannelVoltageRange(i, 16)
    \/ \E i \in around : SetDeskewForChannel(i, 5)

SpecSetters == InitCache /\ [][NextSetters]_vars

\* The timebase and trigger-offset calls, in any order
InitTiming ==
    /\ TrigInit
    /\ BlockInit
    /\ CacheIdle
    /\ ExtIdle

NextTiming ==
    \/ GetSampleRate
    \/ GetSampleDepth
    \/ \E reply \in DelayReplies, rateReply \in RateReplies,
          depthReply \in DepthReplies :
            GetTriggerOffset(reply, rateReply, depthReply)
    \/ \E offset \in {0, 100}, rateReply \in RateReplies,
          depthReply \in DepthReplies :
            SetTriggerOffset(offset, rateReply, depthReply)
    \/ \E rate \in {500000000}, depthReply \in DepthReplies :
            SetSampleRate(rate, depthReply)
    \/ \E depth \in {10000000, 20000000, 12345}, rateReply \in RateReplies,
          depthReply \in DepthReplies :
            SetSampleDepth(depth, rateReply, depthReply)
    \/ FlushConfigCache

SpecTiming == InitTiming /\ [][NextTiming]_vars

\* The per-channel settings, the trigger descriptor and the flush. Replies
\* are the numbers sscanf reads from them; coupling and impedance replies are
\* cut to their first 2 and 3 characters ("" stands for anything unexpected).
NextConfig ==
    \/ \E i \in ConfigChannels, reply \in SwitchReplies : IsChannelEnabled(i, reply)
    \/ \E i \in ConfigChannels, reply \in OffsetReplies : GetChannelOffset(i, reply)
    \/ \E i \in ConfigChannels, offset \in {1} : SetChannelOffset(i, offset)
    \/ \E i \in ConfigChannels, reply \in {1} :
            GetChannelVoltageRange(i, reply)
    \/ \E i \in ConfigChannels, range \in {16} :
            SetChannelVoltageRange(i, range)
    \/ \E i \in ConfigChannels, reply \in {0} : GetDeskewForChannel(i, reply)
    \/ \E i \in ConfigChannels, skew \in {5} : SetDeskewForChannel(i, skew)
    \/ \E i \in ConfigChannels, replyType \in {"AC", "DC", "GN", ""},
          replyImp \in {"ONE", "FIF"} :
            GetChannelCoupling(i, replyType, replyImp)
    \/ \E reply \in {"EDGE", "PULSE"} : PullTrigger(reply)
    \/ \E reply \in {1000}, rateReply \in {1000000000}, depthReply \in {10000000} :
            GetTriggerOffset(reply, rateReply, depthReply)
    \/ FlushConfigCache

SpecConfig == InitCache4 /\ [][NextConfig]_vars

\* Acquisitions on a 1- or 2-channel instrument, between one-shot starts
InitAcquire ==
    /\ TrigInit
    /\ BlockInit
    /\ CacheInit
    /\ m_analogChannelCount \in {1, 2}
    /\ ExtIdle

NextAcquire ==
    \/ \E replies \in [0..(m_analogChannelCount - 1) -> {"ON", "OFF"}],
          descs \in [0..(m_analogChannelCount - 1) -> DescBlocks],
          datas \in [0..(m_analogChannelCount - 1) -> DataBlocks],
          trigtime_len \in {0, 32} :
            \* an answer or a block that is never asked for is fixed
            /\ \A i \in DOMAIN m_channelsEnabled :
                  /\ replies[i] = "ON"
                  /\ ~m_channelsEnabled[i] =>
                        /\ descs[i].declared = WAVEDESC_SIZE
                        /\ datas[i].declared = 0
            /\ AcquireData(replies, descs, datas, trigtime_len)
    \/ StartSingleTrigger

SpecAcquire == InitAcquire /\ [][NextAcquire]_vars

\* One thread calls AcquireData() and another SetSampleDepth(); each call's
\* entries are then taken one at a time, in any order the mutex allows.
NextExchange ==
    \/ /\ acq.op = "none"
       /\ \E replies \in [0..(m_analogChannelCount - 1) -> {"ON", "OFF"}],
             trigtime_len \in {0, 32} :
               AcquireData(replies,
                   [i \in 0..(m_analogChannelCount - 1) |->
                       [shape |-> "DESC", declared |-> WAVEDESC_SIZE]],
                   [i \in 0..(m_analogChannelCount - 1) |->
                       [shape |-> "DAT2", declared |-> 5000000]],
                   trigtime_len)
    \/ /\ cacheCall.op = "none"
       /\ \E depth \in {10000000, 12345}, rateReply \in RateReplies,
             depthReply \in DepthReplies :
               SetSampleDepth(depth, rateReply, depthReply)
    \/ \E t \in Threads : TransportStep(t)

SpecExchange == InitAcquire /\ [][NextExchange]_vars

\* A repeating capture: the caller starts, polls and acquires; the
\* descriptor's segment byte-length field is 0, less than 16, or 16.
NextCapture ==
    \/ Start
    \/ \E sinr \in {"Ready", "Stop"} : PollTrigger(sinr)
    \/ \E replies \in [0..(m_analogChannelCount - 1) -> {"ON", "OFF"}],
          trigtime_len \in {0, 8, 16} :
            AcquireData(replies,
                [i \in 0..(m_analogChannelCount - 1) |->
                    [shape |-> "DESC", declared |-> WAVEDESC_SIZE]],
                [i \in 0..(m_analogChannelCount - 1) |->
                    [shape |-> "DAT2", declared |-> 5000000]],
                trigtime_len)

SpecCapture == InitAcquire /\ [][NextCapture]_vars

\* One thread calls AcquireData() and another GetTriggerOffset(), before
\* which the rate or the depth may have been read; each call's entries are
\* then taken one at a time, in any order the mutexes allow.
NextLocks ==
    \/ /\ acq.op = "none"
       /\ \E replies \in [0..(m_analogChannelCount - 1) -> {"ON", "OFF"}] :
               AcquireData(replies,
                   [i \in 0..(m_analogChannelCount - 1) |->
                       [shape |-> "DESC", declared |-> WAVEDESC_SIZE]],
                   [i \in 0..(m_analogChannelCount - 1) |->
                       [shape |-> "DAT2", declared |-> 5000000]],
                   32)
    \/ /\ cacheCall.op = "none"
       /\ GetSampleRate
    \/ /\ cacheCall.op \in {"none", "GetSampleRate"}
       /\ GetSampleDepth
    \/ /\ cacheCall.op # "GetTriggerOffset"
       /\ \E reply \in {1000}, rateReply \in {1000000000},
             depthReply \in {10000000} :
               GetTriggerOffset(reply, rateReply, depthReply)
    \/ \E t \in Threads : LockStep(t)

SpecLocks == InitAcquire /\ [][NextLocks]_vars

\* Before the constructor body runs: the members with an initializer hold
\* it, m_triggerForced, m_modelid and m_analogChannelCount hold whatever the
\* storage held.
InitIdentify ==
    /\ m_triggerArmed = FALSE
    /\ m_triggerOneShot = FALSE
    /\ m_triggerForced \in BOOLEAN
    /\ trigLog = <<>>
    /\ BlockInit
    /\ m_analogChannelCount \in 0..MAX_ANALOG
    /\ m_channelsEnabled = <<>>
    /\ m_sampleRateValid = FALSE
    /\ m_sampleRate = 1
    /\ m_memoryDepthValid = FALSE
    /\ m_memoryDepth = 1
    /\ cacheCall = [op |-> "none"]
    /\ ConfigInit
    /\ RaceIdle
    /\ AcqIdle
    /\ ImportIdle
    /\ \E garbage \in {"MODEL_UNKNOWN", "MODEL_SIGLENT_SDS2000XP"} :
          ident = [constructed |-> FALSE, m_vendor |-> <<>>, m_model |-> <<>>,
                   m_serial |-> <<>>, m_fwVersion |-> <<>>,
                   m_modelid |-> garbage, m_maxBandwidth |-> 10000,
                   io |-> <<>>]
    /\ m_channels = <<>>

\* The constructor, on the replies an instrument may give to *IDN?: well
\* formed ones for several model names, and ones with a field missing,
\* empty or in excess.
NextIdentify ==
    LET vendors == { <<"S", "i", "g", "l", "e", "n", "t", " ",
                       "T", "e", "c", "h", "n", "o", "l", "o", "g", "i", "e", "s">>,
                     <<"A", "c", "m", "e">> }
        models ==
        { <<"S", "D", "S", "2", "1", "0", "4", "X", " ", "P", "l", "u", "s">>,
            <<"S", "D", "S", "2", "1", "0", "2", "X", " ", "P", "l", "u", "s">>,
            <<"S", "D", "S", "2", "5", "0", "4", "X", " ", "H", "D">>,
            <<"S", "D", "S", "2", "1", "0", "4">>,
            <<"S", "D", "S", "2", "1", "0", "2">>,
            <<"S", "D", "S", "2", "1", "0", "1", "X">>,
            <<"S", "D", "S", "2", "1">>,
            <<"S", "D", "S", "1", "2", "0", "2", "X", "-", "E">> }
        c == <<",">>
        serial == <<"S", "D", "S", "2", "P", "A", "A", "X", "0", "1">>
        version == <<"1", ".", "3", ".", "9", "R", "6">>
        replies(v, m) ==
            { v \o c \o m \o c \o serial \o c \o version,
              v \o c \o m \o c \o serial \o c \o version \o c \o <<"x">>,
              v \o c \o m \o c \o serial \o c \o version \o <<"\n">>,
              v \o c \o m \o c \o serial,
              v \o c \o m \o c \o serial \o c,
              v \o c \o c \o serial \o c \o version,
              v \o c \o m,
              v,
              <<>> }
    IN \E v \in vendors, m \in models :
          \E reply \in replies(v, m), sinr \in {"Ready", "Stop"} :
              SiglentMinOscilloscope(reply, sinr)

SpecIdentify == InitIdentify /\ [][NextIdentify]_vars

\* The driver as constructed, nothing called
ScopeIdle ==
    /\ TrigInit /\ BlockInit /\ CacheIdle /\ ConfigInit /\ RaceIdle /\ AcqIdle
    /\ IdentIdle

\* Both unpack routines on every input of at most MaxBytes bytes
InitUnpack == ScopeIdle /\ UnpackInit /\ SplitIdle /\ FileIdle

NextUnpack ==
    \/ UnpackGeneric
    \/ UnpackAVX2

SpecUnpack == InitUnpack /\ [][NextUnpack]_vars

\* ConvertDigitalSamples with 1..MaxWorkers threads, the blocks run in any order
InitSplit == ScopeIdle /\ UnpackIdle /\ SplitIdle /\ FileIdle

NextSplit ==
    \/ \E count \in SplitCounts, numblocks \in 1..MaxWorkers :
            ConvertDigitalSamples_Enter(count, numblocks)
    \/ \E i \in 0..(MaxWorkers - 1) : ConvertDigitalSamples_Block(i)
    \/ ConvertDigitalSamples_Join

SpecSplit == InitSplit /\ [][NextSplit]_vars

\* Capture files are loaded one after the other, by either revision
InitFile == ScopeIdle /\ UnpackIdle /\ SplitIdle /\ FileIdle

NextFile ==
    \/ \E f \in Files \cup {NoFile} : OnFileNameChanged_Earlier(f)
    \/ \E f \in Files \cup {NoFile} : OnFileNameChanged(f)

SpecFile == InitFile /\ [][NextFile]_vars

\* Two threads call the same getter on a freshly flushed cache
InitRace ==
    /\ TrigInit
    /\ ~m_triggerArmed
    /\ BlockInit
    /\ CacheIdle
    /\ ConfigInit
    /\ RaceInit
    /\ RestIdle

NextRace ==
    \E t \in Threads :
        \/ IsChannelEnabled_Check(t)
        \/ IsChannelEnabled_Query(t)
        \/ IsChannelEnabled_Store(t)
        \/ IsChannelEnabled_Return(t)
        \/ GetChannelOffset_Check(t)
        \/ GetChannelOffset_Query(t)
        \/ GetChannelOffset_Store(t)
        \/ GetTriggerOffset_Check(t)
        \/ GetTriggerOffset_Query(t)
        \/ GetTriggerOffset_Store(t)

SpecRace == InitRace /\ [][NextRace]_vars

---------------------------------------------------------------------------
(* Trigger state machine: properties *)

Polls == {i \in DOMAIN trigLog : trigLog[i].op = "PollTrigger"}
Forces == {i \in DOMAIN trigLog : trigLog[i].op = "ForceTrigger"}

\* Polls that started with no force-trigger pending and got the reply s
StatusPolls(s) ==
    {i \in Polls : ~trigLog[i].pre.forced /\ trigLog[i].status = s}

SentFtrig(i) ==
    \E k \in DOMAIN trigLog[i].io :
        trigLog[i].io[k] = sendOnly(":TRIGGER:MODE FTRIG")

StopThenSingle ==
    << sendOnly(":TRIGGER:MODE STOP"), sendOnly(":TRIGGER:MODE SINGLE"),
       FlushCommandQueue >>

\* C1: a PollTrigger call made while a force-trigger is pending returns
\* TRIGGERED, clears the pending flag and the armed flag and makes no call on
\* the transport (no status query), whatever the instrument would have
\* answered.
C1_ForcedPollHasPriority ==
    \A i \in Polls :
        trigLog[i].pre.forced =>
            /\ trigLog[i].ret = TRIGGER_MODE_TRIGGERED
            /\ ~trigLog[i].post.forced
            /\ ~trigLog[i].post.armed
            /\ trigLog[i].io = <<>>

\* A forced poll returned TRIGGERED although the instrument would have said
\* "Arm".
C1_Witness ==
    \E i \in Polls :
        /\ trigLog[i].pre.forced
        /\ trigLog[i].status = "Arm"
        /\ trigLog[i].ret = TRIGGER_MODE_TRIGGERED
        /\ trigLog[i].io = <<>>

\* C2: with no force pending and status "Stop", PollTrigger returns TRIGGERED
\* if armed and STOPPED if not; armed is cleared exactly when one-shot is set,
\* so in repeating mode the next poll with status "Stop" returns TRIGGERED
\* again; one-shot is never changed.
C2_StopStatus ==
    \A i \in StatusPolls("Stop") :
        LET c == trigLog[i] IN
        /\ c.ret = IF c.pre.armed THEN TRIGGER_MODE_TRIGGERED
                                  ELSE TRIGGER_MODE_STOP
        /\ c.post.armed = (c.pre.armed /\ ~c.pre.oneShot)
        /\ c.post.oneShot = c.pre.oneShot
        /\ (c.pre.armed /\ ~c.pre.oneShot /\ (i + 1) \in StatusPolls("Stop"))
              => trigLog[i + 1].ret = TRIGGER_MODE_TRIGGERED

\* Two polls in a row answered "Stop" in repeating mode: both TRIGGERED.
C2_Witness ==
    \E i \in StatusPolls("Stop") :
        /\ trigLog[i].pre.armed
        /\ ~trigLog[i].pre.oneShot
        /\ trigLog[i].post.armed
        /\ (i + 1) \in StatusPolls("Stop")
        /\ trigLog[i + 1].ret = TRIGGER_MODE_TRIGGERED

\* C3: with no force pending and any status other than "Stop", PollTrigger
\* returns RUNNING; it sets armed exactly when the status is "Arm" or
\* "Ready", and for every other status leaves armed, one-shot and forced as
\* they were.
C3_OtherStatus ==
    \A s \in StatusReplies \ {"Stop"} :
        \A i \in StatusPolls(s) :
            LET c == trigLog[i] IN
            /\ c.ret = TRIGGER_MODE_RUN
            /\ IF s \in {"Arm", "Ready"} THEN c.post.armed
                                         ELSE c.post = c.pre

\* An unarmed poll answered "Ready" armed the trigger, and the next poll,
\* answered "Auto", returned RUNNING and changed nothing.
C3_Witness ==
    \E i \in StatusPolls("Ready") :
        /\ ~trigLog[i].pre.armed
        /\ trigLog[i].post.armed
        /\ trigLog[i].ret = TRIGGER_MODE_RUN
        /\ (i + 1) \in StatusPolls("Auto")
        /\ trigLog[i + 1].ret = TRIGGER_MODE_RUN
        /\ trigLog[i + 1].post = trigLog[i + 1].pre

\* C4: from any trigger state Start leaves (armed, oneShot) = (TRUE, FALSE),
\* StartSingleTrigger (TRUE, TRUE) and Stop (FALSE, TRUE); Start and
\* StartSingleTrigger queue STOP, then SINGLE, then flush; Stop queues only
\* STOP and flushes.
C4_StartStop ==
    \A i \in DOMAIN trigLog :
        LET c == trigLog[i] IN
        /\ c.op = "Start" =>
              /\ c.post.armed /\ ~c.post.oneShot
              /\ c.io = StopThenSingle
        /\ c.op = "StartSingleTrigger" =>
              /\ c.post.armed /\ c.post.oneShot
              /\ c.io = StopThenSingle
        /\ c.op = "Stop" =>
              /\ ~c.post.armed /\ c.post.oneShot
              /\ c.io = << sendOnly(":TRIGGER:MODE STOP"), FlushCommandQueue >>

\* Stop called in repeating mode while armed, then Start from the stopped
\* one-shot state, then StartSingleTrigger.
C4_Witness ==
    /\ Len(trigLog) = 3
    /\ trigLog[1].op = "Stop"
    /\ trigLog[1].pre.armed /\ ~trigLog[1].pre.oneShot
    /\ trigLog[2].op = "Start"
    /\ trigLog[2].post = TrigState(TRUE, FALSE, trigLog[2].pre.forced)
    /\ trigLog[3].op = "StartSingleTrigger"
    /\ trigLog[3].post.oneShot

\* C5: a ForceTrigger call made while a force is pending makes no transport
\* call and changes no state; one made with none pending sets forced, armed
\* and one-shot and sends FTRIG once; so no two FTRIG commands are sent
\* without a PollTrigger between them.
C5_OneForceOutstanding ==
    /\ \A i \in Forces :
          LET c == trigLog[i] IN
          IF c.pre.forced
          THEN c.io = <<>> /\ c.post = c.pre
          ELSE /\ c.post = TrigState(TRUE, TRUE, TRUE)
               /\ c.io = << sendOnly(":TRIGGER:MODE FTRIG"), FlushCommandQueue >>
    /\ \A i, j \in DOMAIN trigLog :
          (i < j /\ SentFtrig(i) /\ SentFtrig(j))
              => \E k \in Polls : i < k /\ k < j

\* ForceTrigger sent FTRIG, Start put the trigger back in repeating mode, and
\* a second ForceTrigger did nothing.
C5_Witness ==
    /\ Len(trigLog) = 3
    /\ trigLog[1].op = "ForceTrigger" /\ SentFtrig(1)
    /\ trigLog[2].op = "Start"
    /\ trigLog[3].op = "ForceTrigger"
    /\ trigLog[3].io = <<>>
    /\ trigLog[3].post = trigLog[3].pre
    /\ ~trigLog[3].post.oneShot

\* C6: the first PollTrigger after a ForceTrigger returns TRIGGERED for every
\* instrument status and clears the pending flag, and a PollTrigger made
\* right after it with status "Stop" returns STOPPED: the force yields one
\* TRIGGERED report.
C6_ForceReportsOnce ==
    \A i \in Polls :
        trigLog[i].pre.forced =>
            /\ trigLog[i].ret = TRIGGER_MODE_TRIGGERED
            /\ ~trigLog[i].post.forced
            /\ ((i + 1) \in Polls /\ trigLog[i + 1].status = "Stop")
                  => trigLog[i + 1].ret = TRIGGER_MODE_STOP

\* ForceTrigger, a poll (instrument at "Stop") reporting TRIGGERED, and a
\* second poll at "Stop" reporting STOPPED.
C6_Witness ==
    /\ Len(trigLog) = 3
    /\ trigLog[1].op = "ForceTrigger" /\ SentFtrig(1)
    /\ trigLog[2].op = "PollTrigger" /\ trigLog[2].status = "Stop"
    /\ trigLog[2].ret = TRIGGER_MODE_TRIGGERED
    /\ trigLog[3].op = "PollTrigger" /\ trigLog[3].status = "Stop"
    /\ trigLog[3].ret = TRIGGER_MODE_STOP

---------------------------------------------------------------------------
(* Waveform block protocol: properties *)

Multiplier(hd) == IF hd THEN 2 ELSE 1

\* The bytes of header each recognized shape has the reader take
HeaderBytes(shape) ==
    CASE shape \in {"DESC", "DAT2"} -> 7 + 9
      [] shape = "WF" -> 7 + 6 + 9
      [] shape = "bare" -> 7 + 4

\* C7: for every declared length L, maximum size M and workaround flag w,
\* ReadWaveformBlock reads min(L * (2 if w else 1), M) payload bytes from the
\* transport into the destination and returns L * (2 if w else 1) unclamped.
C7_ClampedReadUnclampedReturn ==
    (blk # NoBlock /\ blk.shape \in Recognized) =>
        LET logical == blk.declared * Multiplier(blk.hd) IN
        /\ blk.out.payloadRead = Min(logical, blk.maxsize)
        /\ blk.out.written = Min(logical, blk.maxsize)
        /\ blk.out.ret = logical

\* 5,000,000 declared, destination of 1,000,000, workaround on: 1,000,000
\* bytes written and 10,000,000 returned.
C7_Witness ==
    /\ blk # NoBlock
    /\ blk.shape \in Recognized
    /\ blk.declared = 5000000
    /\ blk.maxsize = 1000000
    /\ blk.hd
    /\ blk.out.written = 1000000
    /\ blk.out.ret = 10000000

\* C8: the same 9-digit length field gives the same returned length under
\* each of the four recognized header shapes, the reader taking 16 header
\* bytes for DESC,#9 and DAT2,#9, 22 for the forced-trigger shape and 11 for
\* the bare #9 shape.
C8_SameLengthEveryShape ==
    (blk # NoBlock /\ blk.shape \in Recognized) =>
        /\ blk.out.headerRead = HeaderBytes(blk.shape)
        /\ (/\ prevBlk # NoBlock
            /\ prevBlk.shape \in Recognized
            /\ prevBlk.declared = blk.declared
            /\ prevBlk.hd = blk.hd)
              => blk.out.ret = prevBlk.ret

\* The forced-trigger shape and then the bare shape, both declaring
\* 5,000,000: the same nonzero result.
C8_Witness ==
    /\ blk # NoBlock /\ prevBlk # NoBlock
    /\ prevBlk.shape = "WF"
    /\ blk.shape = "bare"
    /\ prevBlk.declared = 5000000 /\ blk.declared = 5000000
    /\ prevBlk.hd = blk.hd
    /\ blk.out.ret = prevBlk.ret
    /\ blk.out.ret > 0

\* C9: a prefix of no recognized shape makes ReadWaveformBlock return 0,
\* having read the 7 prefix bytes and no more, and written nothing to the
\* destination.
C9_UnrecognizedPrefix ==
    (blk # NoBlock /\ blk.shape \notin Recognized) =>
        /\ blk.out.ret = 0
        /\ blk.out.headerRead = 7
        /\ blk.out.payloadRead = 0
        /\ blk.out.written = 0

\* A reply whose first byte is a stale newline, declaring 5,000,000 bytes,
\* was refused after 7 bytes.
C9_Witness ==
    /\ blk # NoBlock
    /\ blk.shape = "stale"
    /\ blk.declared = 5000000
    /\ blk.out.ret = 0
    /\ blk.out.headerRead = 7

---------------------------------------------------------------------------
(* Interleaving: properties *)

\* Channel i is enabled as far as the driver knows
ChannelOn(i) == i \in DOMAIN m_channelsEnabled /\ m_channelsEnabled[i]

\* C10: IsInterleaving returns false exactly when channels 0 and 1 are both
\* enabled or channels 2 and 3 are both enabled, and true otherwise.
C10_InterleavingByPairs ==
    cacheCall.op = "IsInterleaving" =>
        cacheCall.ret = ~((ChannelOn(0) /\ ChannelOn(1))
                            \/ (ChannelOn(2) /\ ChannelOn(3)))


\* Whether both channels of pair {0,1} or both channels of pair {2,3} are
\* enabled, as far as the driver knows
BothOfAPairOn ==
    (ChannelOn(0) /\ ChannelOn(1)) \/ (ChannelOn(2) /\ ChannelOn(3))

\* C11: whenever an EnableChannel or DisableChannel call changes whether both
\* channels of pair {0,1} or both channels of pair {2,3} are enabled, the
\* sample-rate and memory-depth entries are both invalid when the call
\* returns.
C11_InterleaveChangeInvalidates ==
    [][(/\ cacheCall'.op \in {"EnableChannel", "DisableChannel"}
        /\ BothOfAPairOn' # BothOfAPairOn)
          => (~m_sampleRateValid' /\ ~m_memoryDepthValid')]_vars

\* C12: the enable-state entry of an analog channel comes into existence
\* only through an instrument reply to an enable query for that channel or
\* through EnableChannel/DisableChannel on that channel.
C12_EntryOnlyByReplyOrWrite ==
    [][\A i \in ChannelIndices :
        (/\ i < m_analogChannelCount
         /\ i \notin DOMAIN m_channelsEnabled
         /\ i \in DOMAIN m_channelsEnabled')
          => \/ /\ cacheCall'.op \in {"EnableChannel", "DisableChannel"}
                /\ cacheCall'.arg = i
             \/ /\ cacheCall'.op = "IsChannelEnabled"
                /\ cacheCall'.arg = i
                /\ \E reply \in SwitchReplies :
                      cacheCall'.io = <<converse(ChannelCmd(i, ":SWITCH?"), reply)>>]_vars

---------------------------------------------------------------------------
(* Configuration cache: properties *)

\* C14: when SetTriggerOffset returns the trigger-offset entry is invalid,
\* and when SetSampleRate or SetSampleDepth returns the sample-rate and the
\* memory-depth entries are both invalid; the getter called next asks the
\* instrument and returns what it reports, not what was requested.
C14_TimingSettersInvalidate ==
    /\ [](/\ cacheCall.op = "SetTriggerOffset" => ~m_triggerOffsetValid
          /\ cacheCall.op \in {"SetSampleRate", "SetSampleDepth"} =>
                (~m_sampleRateValid /\ ~m_memoryDepthValid))
    /\ [][/\ (/\ cacheCall.op \in {"SetSampleRate", "SetSampleDepth"}
              /\ cacheCall'.op = "GetSampleRate")
                => \E r \in RateReplies :
                      /\ cacheCall'.io = <<converse(":ACQUIRE:SRATE?", r)>>
                      /\ cacheCall'.ret = r
          /\ (/\ cacheCall.op \in {"SetSampleRate", "SetSampleDepth"}
              /\ cacheCall'.op = "GetSampleDepth")
                => \E r \in DepthReplies :
                      /\ cacheCall'.io = <<converse(":ACQUIRE:MDEPTH?", r)>>
                      /\ cacheCall'.ret = r
          /\ (/\ cacheCall.op = "SetTriggerOffset"
              /\ cacheCall'.op = "GetTriggerOffset")
                => \E r \in DelayReplies :
                      /\ cacheCall'.io[1] = converse(":TIMEBASE:DELAY?", r)
                      /\ cacheCall'.ret =
                            HalfWidth(m_memoryDepth', m_sampleRate') - r]_vars

\* SetSampleRate(500000000) has returned: the member holds the requested
\* rate, and neither the rate nor the depth is valid.
C14_Witness ==
    /\ cacheCall.op = "SetSampleRate"
    /\ cacheCall.arg = 500000000
    /\ m_sampleRate = 500000000
    /\ m_memoryDepth \in DepthReplies
    /\ ~m_sampleRateValid
    /\ ~m_memoryDepthValid

\* The getters of the cached settings
ConfigGetters ==
    {"IsChannelEnabled", "GetChannelOffset", "GetChannelVoltageRange",
     "GetDeskewForChannel", "GetTriggerOffset"}

\* C15: after FlushConfigCache returns no voltage range, offset, enable
\* state, deskew or probe-active entry is left, the sample rate, memory depth
\* and trigger offset are invalid and the trigger descriptor is null; the
\* getter called next makes an instrument round trip.
C15_FlushClearsEverything ==
    /\ [](cacheCall.op = "FlushConfigCache" =>
            /\ m_channelVoltageRanges = <<>>
            /\ m_channelOffsets = <<>>
            /\ m_channelsEnabled = <<>>
            /\ m_channelDeskew = <<>>
            /\ m_probeIsActive = <<>>
            /\ ~m_sampleRateValid
            /\ ~m_memoryDepthValid
            /\ ~m_triggerOffsetValid
            /\ m_trigger = "NULL")
    /\ [][(/\ cacheCall.op = "FlushConfigCache"
           /\ cacheCall'.op \in ConfigGetters)
             => cacheCall'.io # <<>>]_vars

\* The flush has returned after the trigger offset, the rate and the depth
\* had been read from the instrument: their numbers are still in the members,
\* and none is valid.
C15_Witness ==
    /\ cacheCall.op = "FlushConfigCache"
    /\ m_triggerOffset # 0
    /\ m_sampleRate \in RateReplies
    /\ m_memoryDepth \in DepthReplies
    /\ ~m_triggerOffsetValid
    /\ m_channelDeskew = <<>>

---------------------------------------------------------------------------
(* Cached getters under contention: properties *)

\* The query the getter being called sends on a miss
OwnQuery ==
    CASE getter.name = "IsChannelEnabled" -> ChannelCmd(getter.i, ":SWITCH?")
      [] getter.name = "GetChannelOffset" -> ChannelCmd(getter.i, ":OFFSET?")
      [] getter.name = "GetTriggerOffset" -> ":TIMEBASE:DELAY?"

\* C13: when two threads call the same cached getter while its field is not
\* cached, exactly one round trip for that field is made in total and both
\* callers return the same value.
C13_OneRoundTripUnderContention ==
    (\A t \in Threads : pc[t] = "done") =>
        /\ Cardinality({k \in DOMAIN raceIo : raceIo[k][2] = OwnQuery}) = 1
        /\ retOf[1] = retOf[2]

---------------------------------------------------------------------------
(* Acquisition: properties *)

\* C16: if a descriptor read of AcquireData returns a length other than
\* WAVEDESC_SIZE, or a data block read returns 0, AcquireData returns false
\* and appends nothing to the pending-waveform queue.
C16_FailedReadAborts ==
    (/\ acq.op = "AcquireData"
     /\ \E i \in acq.enabled :
            acq.descRet[i] # WAVEDESC_SIZE \/ acq.dataRet[i] = 0)
        => (acq.ret = FALSE /\ acq.pushed = 0)

---------------------------------------------------------------------------
(* Unpacking digital samples: properties *)

\* What the buffer must hold for the input: out[8i+j] = (in[i] >> j) & 1
UnpackedAsSpecified(out) ==
    \A i \in 0..(Len(pin) - 1), j \in 0..7 :
        out[8 * i + j] = (pin[i + 1] \div (2 ^ j)) % 2

\* C17: for every byte count, also one that is not a multiple of 4, the
\* scalar routine and the vector routine with its scalar tail both write
\* out[8i+j] = (in[i] >> j) & 1 for all 0 <= i < count and 0 <= j < 8, so
\* they produce identical output for identical input.
C17_UnpackVariantsAgree ==
    /\ "Generic" \in unpackOut.ran => UnpackedAsSpecified(unpackOut.generic)
    /\ "AVX2" \in unpackOut.ran => UnpackedAsSpecified(unpackOut.avx2)
    /\ unpackOut.ran = {"Generic", "AVX2"} =>
            unpackOut.generic = unpackOut.avx2

\* Both routines have run on five bytes (one vector iteration and a tail of
\* one byte) whose last byte has set and clear bits
C17_Witness ==
    /\ unpackOut.ran = {"Generic", "AVX2"}
    /\ Len(pin) = 5
    /\ pin[1] = 165
    /\ pin[5] = 90
    /\ unpackOut.avx2[33] = 1
    /\ unpackOut.avx2[32] = 0

---------------------------------------------------------------------------
(* Splitting the unpack work: properties *)

\* The bytes block i reads, and the output positions it writes
InputRange(i) ==
    split.calls[i].pin .. (split.calls[i].pin + split.calls[i].nsamp - 1)

OutputFirst(i) == split.calls[i].pout
OutputEnd(i) == split.calls[i].pout + 8 * split.calls[i].nsamp

\* C18: above 125,000 bytes and for every worker count n >= 1 the input is
\* split into n contiguous blocks that start at multiples of 4, are pairwise
\* disjoint and cover exactly [0, count); each worker writes only its own
\* output range (the positions 8*first .. 8*end - 1 of its input block, no
\* two workers the same position), and the call returns only after every
\* worker has finished. At 125,000 bytes or less one call unpacks everything.
C18_DisjointBlocksJoined ==
    split.op = "ConvertDigitalSamples" =>
        LET n == split.numblocks IN
        IF split.count > 125000
        THEN /\ DOMAIN split.calls = 0..(n - 1)
             /\ \A i \in 0..(n - 1) : split.calls[i].pin % 4 = 0
             /\ split.calls[0].pin = 0
             /\ \A i \in 0..(n - 2) :
                    split.calls[i + 1].pin
                        = split.calls[i].pin + split.calls[i].nsamp
             /\ split.calls[n - 1].pin + split.calls[n - 1].nsamp = split.count
             /\ \A i \in 0..(n - 1) :
                    OutputFirst(i) = 8 * split.calls[i].pin
             /\ \A i, k \in 0..(n - 1) :
                    i < k => OutputEnd(i) <= OutputFirst(k)
             /\ split.returned => \A i \in 0..(n - 1) : split.calls[i].done
        ELSE /\ ~split.parallel
             /\ split.calls = [i \in {0} |->
                    [pout |-> 0, pin |-> 0, nsamp |-> split.count, done |-> TRUE]]

---------------------------------------------------------------------------
(* Capture-file import: properties *)

\* A file has been loaded by one of the revisions
FileLoaded == importCall.op = "OnFileNameChanged" /\ file.fname # ""

\* The positions in m_streams of the streams of analog channel i
AnalogStreamsOf(i) ==
    {k \in 1..Len(m_streams) : m_streams[k].name = "C" \o ToString(i + 1)}

\* C19: for a file whose header version is neither 2 nor 4, OnFileNameChanged
\* reports a parse failure and ends with zero streams, whatever streams were
\* there before; for version 2 or 4 there is one stream per enabled analog
\* channel (none for a channel that is not enabled) and its waveform has
\* exactly wave_length samples.
C19_VersionGatesStreams ==
    FileLoaded =>
        IF file.version \notin {2, 4}
        THEN importCall.failed /\ m_streams = <<>>
        ELSE /\ ~importCall.failed
             /\ \A i \in 0..3 :
                    /\ Cardinality(AnalogStreamsOf(i))
                            = (IF file.ch_en[i] = 1 THEN 1 ELSE 0)
                    /\ \A k \in AnalogStreamsOf(i) :
                            Len(m_streams[k].samples) = file.wave_length

\* A version 3 file is loaded over the streams of an earlier file
C19_Witness ==
    /\ FileLoaded
    /\ file.version = 3
    /\ file.ch_en[0] = 1
    /\ importCall.streamsBefore > 1
    /\ importCall.failed
    /\ m_streams = <<>>

\* How many enabled analog channels come before channel i in the payload
EnabledBelow(i) == Cardinality({h \in 0..(i - 1) : file.ch_en[h] = 1})

\* C20: every analog sample decoded from a capture file equals
\* (code - zeroCode) * v_gain - storedOffset, the code read as unsigned,
\* zeroCode 127 for 8-bit and 32767 for 16-bit data, and v_gain = rawGain *
\* probe / codesPerDivision of the channel (both sides times
\* codesPerDivision here); the two revisions decode the same values.
C20_SampleFormula ==
    (FileLoaded /\ file.version \in {2, 4}) =>
        LET bytes == file.data_width + 1
            zeroCode == IF bytes = 1 THEN 127 ELSE 32767
        IN /\ \A i \in 0..3 : \A k \in AnalogStreamsOf(i) :
                \A j \in 1..file.wave_length :
                    m_streams[k].samples[j] =
                        (Code(file.payload,
                              (EnabledBelow(i) * file.wave_length + (j - 1))
                                    * bytes, bytes) - zeroCode)
                            * (file.ch_v_gain[i] * file.ch_probe[i])
                        - file.ch_v_offset[i] * file.ch_codes_per_div[i]
           /\ AnalogChannels(TRUE, file, 0, 0, <<>>).streams
                = AnalogChannels(FALSE, file, 0, 0, <<>>).streams

\* The later revision has decoded 16-bit channels 2 and 4; the last sample
\* of channel 4 has code 65535: (65535 - 32767) * 5 * 1 - 2 * 40
C20_Witness ==
    /\ FileLoaded
    /\ importCall.revision = "later"
    /\ file.version = 4
    /\ file.data_width = 1
    /\ file.wave_length = 2
    /\ file.ch_en = [i \in 0..3 |-> IF i \in {1, 3} THEN 1 ELSE 0]
    /\ m_streams[2].name = "C4"
    /\ m_streams[2].samples[2] = 163760

\* The loaded file with the raw gain of channel i multiplied by k
GainTimes(k, i) == [file EXCEPT !.ch_v_gain[i] = k * @]

\* Where the payload of analog channel i starts
PayloadStart(i) == EnabledBelow(i) * file.wave_length * (file.data_width + 1)

\* The samples either revision decodes for channel i of the file g
Decoded(later, g, i) ==
    IF later
    THEN LaterSamples(g, PayloadStart(i), g.wave_length,
            g.ch_v_gain[i] * g.ch_probe[i], g.ch_v_offset[i],
            g.ch_codes_per_div[i])
    ELSE EarlierSamples(g, i, PayloadStart(i))

\* Gain factors, none of them 0
GainFactors == {-1, 2, 3}

\* C21 as stated: decoding is linear in the gain, decode(raw, k*gain, offset)
\* = k * decode(raw, gain, offset) for every offset and every nonzero k.
C21_LinearInGain ==
    (FileLoaded /\ file.version \in {2, 4}) =>
        \A later \in BOOLEAN, k \in GainFactors, i \in 0..3 :
            \A j \in 1..file.wave_length :
                Decoded(later, GainTimes(k, i), i)[j]
                    = k * Decoded(later, file, i)[j]

\* C21 amended: the decoded samples are a function of the codes, the gain and
\* the offset alone (the streams hold what that function gives for the
\* file), and decoding is affine in the gain: decode(raw, k*gain, offset)
\* = k * decode(raw, gain, offset) + (k - 1) * offset, which is linear
\* exactly when the offset is 0.
C21_AffineInGain ==
    (FileLoaded /\ file.version \in {2, 4}) =>
        /\ \A i \in 0..3 : \A n \in AnalogStreamsOf(i) :
                m_streams[n].samples
                    = Decoded(importCall.revision = "later", file, i)
        /\ \A later \in BOOLEAN, k \in GainFactors, i \in 0..3 :
                \A j \in 1..file.wave_length :
                    Decoded(later, GainTimes(k, i), i)[j]
                        = k * Decoded(later, file, i)[j]
                          + (k - 1) * file.ch_v_offset[i]
                                    * file.ch_codes_per_div[i]

\* The earlier revision has decoded two 8-bit samples of channel 3, whose
\* stored offset is 1: code 255 gives (255 - 127) * 4 - 1 * 35
C21_Witness ==
    /\ FileLoaded
    /\ importCall.revision = "earlier"
    /\ file.version = 2
    /\ file.data_width = 0
    /\ file.wave_length = 2
    /\ file.ch_en[2] = 1
    /\ file.ch_v_offset[2] = 1
    /\ m_streams[1].name = "C3"
    /\ m_streams[1].samples[1] = 477

---------------------------------------------------------------------------
(* Unsupported requests: properties *)

\* C22: SetSampleDepth with a depth outside the supported set sends no
\* command to the instrument (so neither its trigger mode nor its timebase
\* changes) and leaves the cached sample rate, memory depth and their
\* validity flags as they were before the call.
C22_UnsupportedDepthIgnored ==
    [][(/\ cacheCall'.op = "SetSampleDepth"
        /\ cacheCall'.arg \notin {10000, 20000, 100000, 200000, 1000000,
                                  2000000, 10000000})
            => /\ cacheCall'.io = <<>>
               /\ UNCHANGED <<m_sampleRate, m_sampleRateValid, m_memoryDepth,
                              m_memoryDepthValid>>]_vars

\* C23: for every channel index i >= m_analogChannelCount, EnableChannel,
\* DisableChannel, SetChannelOffset, SetChannelVoltageRange and
\* SetDeskewForChannel send no command to the instrument and leave every
\* cached configuration entry unchanged.
C23_OutOfRangeSetterIgnored ==
    [][(/\ cacheCall'.op \in {"EnableChannel", "DisableChannel",
                              "SetChannelOffset", "SetChannelVoltageRange",
                              "SetDeskewForChannel"}
        /\ cacheCall'.arg >= m_analogChannelCount)
            => /\ cacheCall'.io = <<>>
               /\ UNCHANGED <<m_channelsEnabled, m_channelVoltageRanges,
                              m_channelOffsets, m_channelDeskew,
                              m_probeIsActive, m_sampleRateValid,
                              m_memoryDepthValid>>]_vars

---------------------------------------------------------------------------
(* Construction: properties *)

\* The reply the constructor got to *IDN?
IdnReply == ident.io[1][3]

\* The number of comma-separated fields of a reply
FieldCount(reply) == Cardinality({i \in 1..Len(reply) : reply[i] = ","}) + 1

\* C24: once the instrument is constructed on an *IDN? reply that does not
\* split into exactly four comma-separated fields, no channel has been
\* created and vendor, model, serial and firmware version are unset.
C24_BadIdnAbortsEnumeration ==
    (ident.constructed /\ FieldCount(IdnReply) # 4) =>
        /\ m_channels = <<>>
        /\ ident.m_vendor = <<>>
        /\ ident.m_model = <<>>
        /\ ident.m_serial = <<>>
        /\ ident.m_fwVersion = <<>>

\* C25: once the instrument is constructed, the analog channel count is 2
\* when the model string holds '2' at index 6, 4 when it holds '4' there,
\* and 1 otherwise (also when the string has no index 6); exactly that many
\* channels, named C1..Cn in order, exist; the count is 1, 2 or 4 and at
\* most MAX_ANALOG.
C25_ChannelCountFromModel ==
    ident.constructed =>
        LET m == ident.m_model
            c == IF Len(m) >= 7 THEN m[7] ELSE ""
            n == IF c = "2" THEN 2 ELSE IF c = "4" THEN 4 ELSE 1
        IN /\ m_analogChannelCount = n
           /\ Len(m_channels) = n
           /\ \A k \in 1..Len(m_channels) :
                 /\ m_channels[k].hwname = <<"C1", "C2", "C3", "C4">>[k]
                 /\ m_channels[k].index = k - 1
           /\ m_analogChannelCount \in {1, 2, 4}
           /\ m_analogChannelCount <= MAX_ANALOG

---------------------------------------------------------------------------
(* Acquisition: properties *)

\* A step that is an AcquireData() call
AcquireStep == acq' # acq \/ m_pendingWaveforms' # m_pendingWaveforms

\* C26: after AcquireData, the bytes converted into the samples of any
\* segment of an enabled channel lie within the bytes that were read into
\* that channel's buffer.
C26_ConvertsOnlyBytesRead ==
    acq.op = "AcquireData" =>
        \A i \in DOMAIN acq.waveforms :
            \A k \in 1..Len(acq.waveforms[i]) :
                acq.waveforms[i][k].first + acq.waveforms[i][k].count
                    <= acq.dataRead[i]

\* C27: in a successful AcquireData with one-shot false, exactly one
\* ':TRIGGER:MODE SINGLE' is sent, followed by a flush, after every block
\* and trailer read and before any conversion, and armed is true afterwards;
\* with one-shot true no such command is sent and armed is unchanged.
C27_RearmBetweenReadAndConversion ==
    [][(AcquireStep /\ acq'.ret) =>
        LET t == acq'.trace
            rearm == {k \in Where(t, "SendCommandQueued") :
                         t[k][2] = ":TRIGGER:MODE SINGLE"}
            reads == Where(t, "ReadWaveformBlock") \cup Where(t, "ReadRawData")
                         \cup Where(t, "ReadReply")
        IN IF m_triggerOneShot
           THEN rearm = {} /\ m_triggerArmed' = m_triggerArmed
           ELSE /\ Cardinality(rearm) = 1
                /\ \A k \in rearm :
                      /\ t[k + 1] = FlushCommandQueue
                      /\ \A r \in reads : r < k
                      /\ \A c \in Where(t, "ProcessAnalogWaveform") : k + 1 < c
                /\ m_triggerArmed']_vars

\* A repeating acquisition has re-armed and then converted, and a one-shot
\* acquisition has succeeded as well.
C27_Witness ==
    /\ acq.op = "AcquireData"
    /\ acq.ret
    /\ ~m_triggerOneShot
    /\ m_triggerArmed
    /\ Cardinality(acq.enabled) = 2
    /\ Where(acq.trace, "ProcessAnalogWaveform") # {}
    /\ \E k \in Where(acq.trace, "SendCommandQueued") :
          acq.trace[k][2] = ":TRIGGER:MODE SINGLE"

\* The channels whose descriptor a call requested
DescriptorsRequested ==
    {i \in 0..(m_analogChannelCount - 1) :
        \E k \in Where(acq.io, "SendCommandQueued") :
            acq.io[k][2] = ":WAVEFORM:SOURCE C" \o ToString(i + 1)
                               \o ";:WAVEFORM:PREAMBLE?"}

\* C28: AcquireData requests and reads one descriptor for each enabled
\* channel, and the descriptor of channel 0 when no channel is enabled.
C28_DescriptorPerEnabledChannel ==
    acq.op = "AcquireData" =>
        /\ DescriptorsRequested = IF acq.enabled = {} THEN {0} ELSE acq.enabled
        /\ Cardinality({k \in Where(acq.io, "ReadWaveformBlock") :
                            acq.io[k][2] = WAVEDESC_SIZE})
               = Cardinality(DescriptorsRequested)

\* C29: a successful AcquireData with n segments appends n sets, the k-th
\* holding the waveform of segment k - 1 of every enabled channel and of no
\* other channel; every append is made with m_pendingWaveformsMutex held and
\* m_cacheMutex not held; a failed AcquireData appends nothing.
C29_OneSetPerSegment ==
    [][AcquireStep =>
        LET t == acq'.trace
            n == acq'.num_sequences
            push == Where(t, "push_back")
        IN IF acq'.ret
           THEN /\ m_pendingWaveforms' = m_pendingWaveforms + n
                /\ Len(acq'.sets) = n
                /\ \A k \in 1..n :
                      /\ DOMAIN acq'.sets[k] = acq'.enabled
                      /\ \A i \in acq'.enabled :
                            acq'.sets[k][i].segment = k - 1
                /\ Cardinality(push) = n
                /\ \A k \in push :
                      /\ t[k][2] = Cardinality({j \in push : j < k})
                      /\ Held(t, k, "m_pendingWaveformsMutex")
                      /\ ~Held(t, k, "m_cacheMutex")
           ELSE /\ m_pendingWaveforms' = m_pendingWaveforms
                /\ acq'.sets = <<>>
                /\ push = {}]_vars

\* Two segments of the one enabled channel out of two have been appended.
C29_Witness ==
    /\ acq.op = "AcquireData"
    /\ acq.ret
    /\ acq.num_sequences = 2
    /\ acq.enabled = {1}
    /\ Len(acq.sets) = 2
    /\ m_pendingWaveforms >= 2

\* The entries of the last AcquireData() call from its first descriptor
\* request to its last trailer read
Exchange ==
    LET t == Program(1)
        requests == {k \in Where(t, "SendCommandQueued") :
                        \E i \in 0..(m_analogChannelCount - 1) :
                            t[k][2] = ":WAVEFORM:SOURCE C" \o ToString(i + 1)
                                          \o ";:WAVEFORM:PREAMBLE?"}
        trailers == Where(t, "ReadRawData")
    IN {k \in 1..Len(t) : /\ \E r \in requests : r <= k
                          /\ \E e \in trailers : k <= e}

\* C30: at every entry of AcquireData from the first descriptor request to
\* the last trailer read the thread holds the transport mutex, and on the
\* wire no call of the thread in SetSampleDepth lies between two calls of
\* that exchange.
C30_ExchangeNotInterleaved ==
    /\ \A k \in Exchange : Held(Program(1), k, "transport")
    /\ \A a, c \in 1..Len(exch.wire) :
          (/\ a < c
           /\ exch.wire[a][1] = 1 /\ exch.wire[a][2] \in Exchange
           /\ exch.wire[c][1] = 1 /\ exch.wire[c][2] \in Exchange)
              => \A b \in a..c : exch.wire[b][1] = 1

\* Both threads have run to the end, the acquisition read two channels, and
\* SetSampleDepth's calls are on the wire before the exchange.
C30_Witness ==
    /\ acq.op = "AcquireData"
    /\ acq.ret
    /\ Cardinality(acq.enabled) = 2
    /\ cacheCall.op = "SetSampleDepth"
    /\ \A t \in Threads : exch.at[t] = Len(Program(t))
    /\ exch.wire[1][1] = 2
    /\ \E a \in 1..Len(exch.wire) :
          exch.wire[a][1] = 1 /\ exch.wire[a][2] \in Exchange

---------------------------------------------------------------------------
(* Trigger state machine: stopping *)

\* C37: a PollTrigger call that follows a Stop with nothing but PollTrigger
\* calls in between (no Start, StartSingleTrigger or ForceTrigger) does not
\* return TRIGGER_MODE_TRIGGERED.
C37_NoTriggeredAfterStop ==
    \A k, j \in 1..Len(trigLog) :
        (/\ k < j
         /\ trigLog[k].op = "Stop"
         /\ \A b \in (k + 1)..j : trigLog[b].op = "PollTrigger")
            => trigLog[j].ret # TRIGGER_MODE_TRIGGERED

---------------------------------------------------------------------------
(* Repeating capture *)

\* C38: in repeating mode (Start, then only PollTrigger calls), an
\* AcquireData call made once the last PollTrigger has returned TRIGGER_MODE_TRIGGERED has sent
\* ':TRIGGER:MODE SINGLE' by the time it returns, whether it returns true or
\* false.
C38_RepeatingCaptureRearms ==
    [][(/\ AcquireStep
        /\ ~m_triggerOneShot
        /\ \E k \in 1..Len(trigLog) :
              /\ trigLog[k].op = "Start"
              /\ \A b \in (k + 1)..Len(trigLog) : trigLog[b].op = "PollTrigger"
        /\ trigLog[Len(trigLog)].op = "PollTrigger"
        /\ trigLog[Len(trigLog)].ret = TRIGGER_MODE_TRIGGERED)
          => \E k \in Where(acq'.trace, "SendCommandQueued") :
                acq'.trace[k][2] = ":TRIGGER:MODE SINGLE"]_vars

---------------------------------------------------------------------------
(* Acquisition: the segment count *)

\* C36: an AcquireData call that found a channel enabled used a segment
\* count of at least 1, its division num_samples / num_sequences did not
\* trap, and if it returned true it appended at least one set.
C36_SegmentCountAtLeastOne ==
    (acq.op = "AcquireData" /\ acq.enabled # {}) =>
        /\ acq.num_sequences >= 1
        /\ ~acq.trapped
        /\ acq.ret => Len(acq.sets) >= 1

---------------------------------------------------------------------------
(* Waveform block protocol: framing *)

\* C35: when ReadWaveformBlock returns a nonzero length, it has read that
\* many payload bytes from the transport (the whole payload of the block),
\* so that the next read starts at the end of the payload.
C35_WholePayloadConsumed ==
    (blk # NoBlock /\ blk.out.ret # 0) =>
        blk.out.payloadRead = blk.out.ret

---------------------------------------------------------------------------
(* Channel configuration: channel numbering *)

\* C39: the command SetDeskewForChannel(i, s) sends addresses instrument
\* channel i + 1, the channel whose skew GetDeskewForChannel(i) asks for.
C39_DeskewAddressesChannelPlusOne ==
    (cacheCall.op = "SetDeskewForChannel" /\ cacheCall.io # <<>>) =>
        \A k \in 1..Len(cacheCall.io) :
            \E s \in {5} :
                cacheCall.io[k][2] =
                    ":CHANNEL" \o ToString(cacheCall.arg + 1)
                        \o ":SKEW " \o ToString(s)

---------------------------------------------------------------------------
(* Capture-file import: the layout of the payload *)

\* The later revision has loaded a file of a supported version
LaterLoaded ==
    /\ FileLoaded
    /\ importCall.revision = "later"
    /\ file.version \in {2, 4}

\* The positions in m_streams of the streams called name
StreamsNamed(name) == {k \in 1..Len(m_streams) : m_streams[k].name = name}

\* C33: the payload of a capture file is consumed in order from the base
\* offset of its version (0x800 for version 2, 0x1000 for version 4): the
\* k-th enabled analog channel, in ascending index, takes the bytes
\* [base + k*w*N, base + (k+1)*w*N) for the data width w and the wave length
\* N; the enabled math channels follow at once, in ascending index, with w
\* times their own wave length each; the digital payload starts after the
\* last math payload; a channel that is not enabled takes no bytes.
C33_PayloadInOrder ==
    LaterLoaded =>
        LET base == IF file.version = 2 THEN 2048 ELSE 4096
            w == file.data_width + 1
            N == file.wave_length
            analogEnd == base + EnabledBelow(4) * w * N
            mathBelow[i \in 0..4] ==
                IF i = 0 THEN 0
                ELSE mathBelow[i - 1]
                        + (IF file.math_en[i - 1] = 1
                           THEN w * file.math_wave_length[i - 1] ELSE 0)
            mathEnd == analogEnd + mathBelow[4]
            digital == {k \in 1..Len(m_streams) : m_streams[k].type = "digital"}
        IN /\ \A i \in 0..3 :
                IF file.ch_en[i] = 1
                THEN \E k \in 1..Len(m_streams) :
                        /\ StreamsNamed("C" \o ToString(i + 1)) = {k}
                        /\ m_streams[k].from = base + EnabledBelow(i) * w * N
                        /\ m_streams[k].to
                                = base + (EnabledBelow(i) + 1) * w * N
                ELSE StreamsNamed("C" \o ToString(i + 1)) = {}
           /\ \A i \in 0..3 :
                IF file.math_en[i] = 1
                THEN \E k \in 1..Len(m_streams) :
                        /\ StreamsNamed("F" \o ToString(i + 1)) = {k}
                        /\ m_streams[k].from = analogEnd + mathBelow[i]
                        /\ m_streams[k].to = analogEnd + mathBelow[i + 1]
                ELSE StreamsNamed("F" \o ToString(i + 1)) = {}
           /\ \A k \in digital : m_streams[k].from >= mathEnd
           /\ digital # {} => \E k \in digital : m_streams[k].from = mathEnd
           /\ \A i \in 0..15 :
                (file.digital_en = 0 \/ file.d_ch_en[i] # 1)
                    => StreamsNamed("D" \o ToString(i)) = {}
           /\ m_streams # <<>> => m_streams[1].from = base
           /\ \A k \in 1..(Len(m_streams) - 1) :
                m_streams[k + 1].from = m_streams[k].to

\* A version 4 file with 16-bit samples, analog channels 2 and 4, math
\* channels 2 and 3 and digital channel 3: F3 lies after two analog payloads
\* of 4 bytes and the 2 bytes of F2, and D3 after the 4 bytes of F3
C33_Witness ==
    /\ LaterLoaded
    /\ file.version = 4
    /\ file.data_width = 1
    /\ file.wave_length = 2
    /\ Len(m_streams) = 5
    /\ m_streams[2].name = "C4"
    /\ m_streams[2].from = 4100
    /\ m_streams[4].name = "F3"
    /\ m_streams[4].from = 4106
    /\ m_streams[5].name = "D3"
    /\ m_streams[5].from = 4110

\* C40: for every enabled digital channel of a capture file, each of the
\* d_wave_length samples of its waveform is assigned from the payload,
\* sample n being bit n mod 8 of byte n div 8 of the channel's payload, and
\* the channel takes ceil(d_wave_length / 8) bytes of the payload.
C40_EveryDigitalSampleAssigned ==
    LaterLoaded =>
        LET base == IF file.version = 2 THEN 2048 ELSE 4096 IN
        \A k \in 1..Len(m_streams) :
            m_streams[k].type = "digital" =>
                /\ DOMAIN m_streams[k].samples = 0..(file.d_wave_length - 1)
                /\ \A n \in 0..(file.d_wave_length - 1) :
                        m_streams[k].samples[n] =
                            BitAnd(file.payload[m_streams[k].from - base
                                                    + n \div 8 + 1]
                                        \div (2 ^ (n % 8)), 1)
                /\ m_streams[k].to - m_streams[k].from
                        = (file.d_wave_length + 7) \div 8

---------------------------------------------------------------------------
(* Locking *)

\* C31: every read and every write of a cached timebase or trigger-offset
\* member (value or validity flag) is made with the cache mutex held by the
\* calling thread.
C31_CacheAccessUnderLock ==
    \A k \in Where(GetterTrace, "read") \cup Where(GetterTrace, "write") :
        Held(GetterTrace, k, "m_cacheMutex")

\* C32: no round trip to the instrument is made by a thread that holds the
\* cache mutex or the pending-waveforms mutex.
C32_NoRoundTripUnderCacheLock ==
    \A t \in {GetterTrace, IF acq.op = "AcquireData" THEN acq.trace ELSE <<>>} :
        \A k \in Where(t, "SendCommandQueuedWithReply") :
            /\ ~Held(t, k, "m_cacheMutex")
            /\ ~Held(t, k, "m_pendingWaveformsMutex")

\* Thread t is about to lock a mutex that thread u holds
WaitsFor(t, u) ==
    LET k == exch.at[t] + 1 IN
    /\ k <= Len(LockProgram(t))
    /\ LockProgram(t)[k][1] = "lock"
    /\ Held(LockProgram(u), exch.at[u] + 1, LockProgram(t)[k][2])

\* C34: with every round trip made under the transport mutex, a thread in
\* AcquireData and a thread in GetTriggerOffset never wait for each other.
C34_NoDeadlock ==
    ~(WaitsFor(1, 2) /\ WaitsFor(2, 1))

===========================================================================
